---- MODULE Spec2Model ----
(***************************************************************************)
(* Model of the skoap authentication filters (package skoap, skoap.go).    *)
(*                                                                         *)
(* One request travels through a route, a sequence of auth / authTeam and  *)
(* auditLog filters.  filter.Request is split at the two places where it   *)
(* blocks on a remote service: the call to the token validation service    *)
(* (authClient.validate) and the call to the team service                  *)
(* (teamClient.getTeams).  The answers of the two services are inputs.     *)
(* After the filters returned, the proxy either answers with the response  *)
(* a filter served, or forwards the request to the backend, which reads    *)
(* the request body in chunks; then the filters handle the response.       *)
(*                                                                         *)
(* Spec is a route with one auth / authTeam filter and a request without   *)
(* body; SpecChain a route with two of them; SpecCapture and SpecAudit     *)
(* routes with auditLog filters and a request body.                        *)
(*                                                                         *)
(* Header values and tokens are sequences of one-character strings, so     *)
(* that the prefix test and the slicing of getToken are computed.          *)
(***************************************************************************)
EXTENDS Integers, Sequences, FiniteSets, TLC

VARIABLES
    f,          \* the filter built by spec.CreateFilter: typ, realm, args
    r,          \* the incoming request: its Header
    pc,         \* position of the request in filter.Request / the proxy
    token,      \* local variable token of filter.Request
    a,          \* local variable a of filter.Request (the authDoc), or NoDoc
    ctx,        \* the filter context: StateBag and the served response
    net,        \* the outgoing requests made by jsonGet so far, in order
    authRsp,    \* what the token validation service answered, or NoRsp
    teamRsp,    \* what the team service answered, or NoRsp
    backend,    \* the requests the backend received, in order
    rsp,        \* the status of the response to the client, 0 if none yet
    route,      \* the filters of the route, in order
    idx,        \* the position in route of the filter that runs
    hostStops,  \* whether the proxy skips the filters after one that served
    rbody,      \* the original request body: its data, the bytes read of it
    tees,       \* the teeBody wrappers around the body, the innermost first
    read,       \* the result of the last Read of the backend, or NoRead
    log,        \* the records written to the writer of the audit log
    original,   \* the original request of the filter context
    stderr,     \* the lines printed by the standard logger
    conf,       \* the configuration: arguments of a filter, or flags
    defs,       \* the filter definitions of the route of the command
    reqs,       \* the requests the filters handle concurrently
    operands,   \* the two sequences of a call of intersect
    overlap,    \* the result of that call, once it returned
    hung        \* the remote call that never returns, if there is one

\* the state of the route and of the audit log
pipeVars == <<route, hostStops, rbody, tees, read, log, original, stderr, conf,
              defs, reqs, operands, overlap, hung>>

\* the state of a call of intersect on its own, and the remote call that
\* never returns
callVars == <<operands, overlap, hung>>

vars == <<f, r, pc, token, a, ctx, net, authRsp, teamRsp, backend, rsp,
          route, idx, hostStops, rbody, tees, read, log, original, stderr, conf,
          defs, reqs, operands, overlap, hung>>

----------------------------------------------------------------------------
(* Bounds of the model *)

\* longest list of scope / team values given to a filter
MaxArgs == 2
\* longest list of scopes in an identity document, of teams in a team answer
MaxList == 2
\* longest request body, in bytes
MaxBody == 3
\* largest byte limit of an auditLog filter
MaxCap == 2
\* number of requests the filters handle at the same time
NumRequests == 2
\* longest value of the scopes and teams flags, in characters
MaxFlag == 3
\* longest sequence given to intersect on its own
MaxSeq == 3

----------------------------------------------------------------------------
(* Constants of the program *)

authHeaderName == "Authorization"
authUserKey == "auth-user"
authRejectReasonKey == "auth-reject-reason"

checkScope == "checkScope"
checkTeam == "checkTeam"

AuthName == "auth"
AuthTeamName == "authTeam"
AuditLogName == "auditLog"
\* a filter of the proxy that rewrites the path of the request
ModPathName == "modPath"
\* the name of the filter of package hackauth
HackAuthName == "hackauth"
\* builtin.DropRequestHeaderName
DropRequestHeaderName == "dropRequestHeader"

\* filters.ErrInvalidFilterParameters
ErrInvalidFilterParameters == "invalid filter parameters"

missingBearerToken == "missing-bearer-token"
authServiceAccess == "auth-service-access"
invalidToken == "invalid-token"
invalidRealm == "invalid-realm"
invalidScope == "invalid-scope"
teamServiceAccess == "team-service-access"
invalidTeam == "invalid-team"

errInvalidAuthorizationHeader == "invalid authorization header"
errInvalidToken == "invalid token"
\* the errors of the http client and of the json decoder
errTransport == "transport error"
errDecode == "decode error"
nil == "nil"

StatusOK == 200
StatusUnauthorized == 401
\* a 2xx status of the services that is not 200
StatusNoContent == 204

----------------------------------------------------------------------------
(* Values the inputs are drawn from *)

SeqUpTo(S, n) == UNION {[1..k -> S] : k \in 0..n}

\* scope and team names; two of them differ in case only
Values == {"a", "A"}
PolicyRealms == {"", "/immortals"}
DocRealms == {"", "/immortals", "/IMMORTALS"}
Uids == {"", "jdoe"}

\* "Bearer "
Bearer == <<"B", "e", "a", "r", "e", "r", " ">>

\* values of the Authorization header of the incoming request
HeaderValues ==
    { Bearer \o <<"t">>,                             \* "Bearer t"
      Bearer \o <<"u", "v">>,                        \* "Bearer uv"
      Bearer,                                        \* "Bearer "
      <<"B", "e", "a", "r", "e", "r">>,              \* "Bearer"
      <<"b", "e", "a", "r", "e", "r", " ", "t">>,    \* "bearer t"
      <<"B", "a", "s", "i", "c", " ", "t">> }        \* "Basic t"

NoHeader == <<>>
Header1(name, value) == [n \in {name} |-> value]

\* the incoming requests: without, or with one Authorization header
Requests ==
    {[Header |-> NoHeader]} \cup
    {[Header |-> Header1(authHeaderName, h)] : h \in HeaderValues}

NoDoc == [none |-> TRUE]
NoRsp == [kind |-> "none"]
\* a body that the json decoder rejects, and a body that decodes to doc
Undecodable == [decodable |-> FALSE]
Json(doc) == [decodable |-> TRUE, doc |-> doc]

\* the json documents of the token validation service (authDoc)
AuthDocs == [Uid : Uids, Realm : DocRealms, Scopes : SeqUpTo(Values, MaxList)]
\* the json documents of the team service ([]teamDoc)
TeamDocs == SeqUpTo([Id : Values], MaxList)

TransportFailure == [kind |-> "transport"]
HttpRsp(status, body) == [kind |-> "http", StatusCode |-> status, body |-> body]

SampleAuthDoc == [Uid |-> "jdoe", Realm |-> "/immortals", Scopes |-> <<"a">>]
SampleTeamDoc == <<[Id |-> "a"]>>

\* the answers of the token validation service
IdentityResponses ==
    {TransportFailure} \cup
    {HttpRsp(StatusOK, b) : b \in {Undecodable} \cup {Json(d) : d \in AuthDocs}} \cup
    {HttpRsp(s, b) : s \in {StatusUnauthorized, StatusNoContent},
                     b \in {Undecodable, Json(SampleAuthDoc)}}

\* the answers of the team service
TeamResponses ==
    {TransportFailure} \cup
    {HttpRsp(StatusOK, b) : b \in {Undecodable} \cup {Json(d) : d \in TeamDocs}} \cup
    {HttpRsp(s, b) : s \in {StatusUnauthorized, StatusNoContent},
                     b \in {Undecodable, Json(SampleTeamDoc)}}

----------------------------------------------------------------------------
(* Helpers of skoap.go *)

\* strings.HasPrefix
HasPrefix(s, prefix) ==
    Len(s) >= Len(prefix) /\ SubSeq(s, 1, Len(prefix)) = prefix

\* http.Header.Get: the value of the header, "" when it is missing
HeaderGet(h, name) == IF name \in DOMAIN h THEN h[name] ELSE <<>>

getToken_AnyScheme(req) ==
    LET h == HeaderGet(req.Header, authHeaderName)
    IN  IF h = <<>>
        THEN [err |-> errInvalidAuthorizationHeader, token |-> <<>>]
        ELSE [err |-> nil,
              token |-> IF Len(h) > Len(Bearer)
                        THEN SubSeq(h, Len(Bearer) + 1, Len(h)) ELSE <<>>]

getToken_NonEmptyToken(req) ==
    LET h == HeaderGet(req.Header, authHeaderName)
    IN  IF ~HasPrefix(h, Bearer) \/ Len(h) = Len(Bearer)
        THEN [err |-> errInvalidAuthorizationHeader, token |-> <<>>]
        ELSE [err |-> nil, token |-> SubSeq(h, Len(Bearer) + 1, Len(h))]

getToken(req) ==
    LET h == HeaderGet(req.Header, authHeaderName)
    IN  IF ~HasPrefix(h, Bearer)
        THEN [err |-> errInvalidAuthorizationHeader, token |-> <<>>]
        ELSE [err |-> nil, token |-> SubSeq(h, Len(Bearer) + 1, Len(h))]

\* ctx.Serve(&http.Response{StatusCode: http.StatusUnauthorized})
Serve(c, status) == [c EXCEPT !.served = status]

unauthorized_NoServe(c, uname, reason) ==
    [c EXCEPT !.StateBag =
        [k \in DOMAIN c.StateBag \cup {authUserKey, authRejectReasonKey} |->
            IF k = authUserKey THEN uname
            ELSE IF k = authRejectReasonKey THEN reason
            ELSE c.StateBag[k]]]

unauthorized_EmptyUser(c, uname, reason) ==
    Serve([c EXCEPT !.StateBag =
              [k \in DOMAIN c.StateBag \cup {authUserKey, authRejectReasonKey} |->
                  IF k = authUserKey THEN ""
                  ELSE IF k = authRejectReasonKey THEN reason
                  ELSE c.StateBag[k]]],
          StatusUnauthorized)

unauthorized(c, uname, reason) ==
    Serve([c EXCEPT !.StateBag =
              [k \in DOMAIN c.StateBag \cup {authUserKey, authRejectReasonKey} |->
                  IF k = authUserKey THEN uname
                  ELSE IF k = authRejectReasonKey THEN reason
                  ELSE c.StateBag[k]]],
          StatusUnauthorized)

authorized_ClearReason(c, uname) ==
    [c EXCEPT !.StateBag = [k \in {authUserKey} |-> uname]]

authorized_Serve(c, uname) ==
    Serve([c EXCEPT !.StateBag =
              [k \in DOMAIN c.StateBag \cup {authUserKey} |->
                  IF k = authUserKey THEN uname ELSE c.StateBag[k]]],
          StatusOK)

authorized(c, uname) ==
    [c EXCEPT !.StateBag =
        [k \in DOMAIN c.StateBag \cup {authUserKey} |->
            IF k = authUserKey THEN uname ELSE c.StateBag[k]]]

intersect_FirstOnly(left, right) ==
    Len(left) > 0 /\ Len(right) > 0 /\ left[1] = right[1]

intersect_FoldCase(left, right) ==
    \E i \in 1..Len(left) : \E j \in 1..Len(right) :
        (IF left[i] = "A" THEN "a" ELSE left[i]) =
            (IF right[j] = "A" THEN "a" ELSE right[j])

intersect(left, right) ==
    \E i \in 1..Len(left) : \E j \in 1..Len(right) : left[i] = right[j]

jsonGetRequest_NoAuth(url, auth) ==
    [url |-> url, Header |-> NoHeader]

\* jsonGet, first part: the request it builds and sends
jsonGetRequest(url, auth) ==
    [url |-> url,
     Header |-> IF auth # <<>>
                THEN Header1(authHeaderName, Bearer \o auth)
                ELSE NoHeader]

jsonGet_NoStatus(answer) ==
    IF answer.kind = "transport" THEN [err |-> errTransport, doc |-> NoDoc]
    ELSE IF answer.body = Undecodable THEN [err |-> errDecode, doc |-> NoDoc]
    ELSE [err |-> nil, doc |-> answer.body.doc]

\* jsonGet, second part: the error and the decoded document
jsonGet(answer) ==
    IF answer.kind = "transport" THEN [err |-> errTransport, doc |-> NoDoc]
    ELSE IF answer.StatusCode # StatusOK THEN [err |-> errInvalidToken, doc |-> NoDoc]
    ELSE IF answer.body = Undecodable THEN [err |-> errDecode, doc |-> NoDoc]
    ELSE [err |-> nil, doc |-> answer.body.doc]

\* authClient.validate: the request
validateRequest(tok) == jsonGetRequest([base |-> "authUrlBase", tail |-> ""], tok)

\* authClient.validate: the result
validate(answer) == jsonGet(answer)

getTeamsRequest_NoUid(uid, tok) ==
    jsonGetRequest([base |-> "teamUrlBase", tail |-> ""], tok)

\* teamClient.getTeams: the request
getTeamsRequest(uid, tok) == jsonGetRequest([base |-> "teamUrlBase", tail |-> uid], tok)

getTeams_NoCopy(answer) ==
    LET res == jsonGet(answer)
    IN  IF res.err # nil
        THEN [err |-> res.err, teams |-> <<>>]
        ELSE [err |-> nil, teams |-> [i \in 1..Len(res.doc) |-> ""]]

\* teamClient.getTeams: the result
getTeams(answer) ==
    LET res == jsonGet(answer)
    IN  IF res.err # nil
        THEN [err |-> res.err, teams |-> <<>>]
        ELSE [err |-> nil, teams |-> [i \in 1..Len(res.doc) |-> res.doc[i].Id]]

\* spec.CreateFilter, for string arguments
CreateFilter(typ, sargs) ==
    IF Len(sargs) > 0
    THEN [typ |-> typ, realm |-> sargs[1], args |-> Tail(sargs)]
    ELSE [typ |-> typ, realm |-> "", args |-> <<>>]

validateRealm_NoEmpty(flt, doc) == doc.Realm = flt.realm

validateRealm_Any(flt, doc) ==
    IF flt.realm = "" THEN TRUE ELSE doc.Realm # ""

validateRealm(flt, doc) ==
    IF flt.realm = "" THEN TRUE ELSE doc.Realm = flt.realm

validateScope(flt, doc) ==
    IF Len(flt.args) = 0 THEN TRUE ELSE intersect(flt.args, doc.Scopes)

validateTeam_AlwaysCall(flt) == TRUE

\* filter.validateTeam: whether it calls the team service
validateTeamCalls(flt) == Len(flt.args) # 0

\* filter.validateTeam: its result once the team service answered
validateTeam(flt, answer) ==
    LET t == getTeams(answer)
    IN  [valid |-> intersect(flt.args, t.teams), err |-> t.err]

validateReason_Swapped(err) ==
    IF err = errInvalidToken THEN authServiceAccess ELSE invalidToken

\* filter.Request: the reason recorded when validate failed
validateReason(err) ==
    IF err = errInvalidToken THEN invalidToken ELSE authServiceAccess

teamOutcome_ValidFirst(c, doc, v) ==
    IF ~v.valid THEN unauthorized(c, doc.Uid, invalidTeam)
    ELSE IF v.err # nil THEN unauthorized(c, doc.Uid, teamServiceAccess)
    ELSE authorized(c, doc.Uid)

\* filter.Request: the outcome of the team check
teamOutcome(c, doc, v) ==
    IF v.err # nil THEN unauthorized(c, doc.Uid, teamServiceAccess)
    ELSE IF ~v.valid THEN unauthorized(c, doc.Uid, invalidTeam)
    ELSE authorized(c, doc.Uid)

----------------------------------------------------------------------------
(* The route *)

\* spec.Name
Name(typ) == IF typ = checkScope THEN AuthName ELSE AuthTeamName

\* an auth / authTeam filter of a route
AuthFilter(flt) == [name |-> Name(flt.typ), flt |-> flt]

\* no auth / authTeam filter ran yet
NoFilter == [none |-> TRUE]

\* a request without body, and no Read yet
NoBody == [none |-> TRUE]
NoRead == [none |-> TRUE]
\* every remote call returns
NoHang == [req |-> 0, call |-> "none"]

\* no call of intersect
NoCall == [left |-> <<>>, right |-> <<>>]

NoConf == [none |-> TRUE]

\* the last auditLog filter among the first i filters of the route, 0 if
\* none: the next filter whose Response does something
LastAuditLog(rt, i) ==
    LET S == {j \in 1..i : rt[j].name = AuditLogName}
    IN  IF S = {} THEN 0 ELSE CHOOSE j \in S : \A k \in S : k <= j

----------------------------------------------------------------------------
(* The audit log and the capture of the request body *)

\* the errors of the readers and writers of package io
EOF == "EOF"
errShortWrite == "short write"

\* a request body of n bytes, none of them read; byte i of it is i
Body(n) == [data |-> [i \in 1..n |-> i], pos |-> 0]

\* the bytes of the body not read yet
Rest(b) == SubSeq(b.data, b.pos + 1, Len(b.data))

OriginalRequest_Working == r

\* ctx.OriginalRequest()
OriginalRequest == original

\* an incoming request with its method and path
Inbound(req, method, path) ==
    [Header |-> req.Header, Method |-> method, Path |-> path]

\* the error of a writer that fails
errWrite == "write error"

writeRecord_Silent(w, errs, rec, ok) ==
    IF ok
    THEN [writer |-> Append(w, rec), stderr |-> errs]
    ELSE [writer |-> w, stderr |-> errs]

writeRecord_Twice(w, errs, rec, ok) ==
    IF ok
    THEN [writer |-> Append(Append(w, rec), rec), stderr |-> errs]
    ELSE [writer |-> w, stderr |-> Append(errs, errWrite)]

\* auditLog.Response, enc.Encode(&doc): the record gets written to the
\* writer, or the writer fails and the error is printed by the logger
writeRecord(w, errs, rec, ok) ==
    IF ok
    THEN [writer |-> Append(w, rec), stderr |-> errs]
    ELSE [writer |-> w, stderr |-> Append(errs, errWrite)]

\* int(mbl) for the float64 h/2: the fraction is cut off
IntOf(h) == IF h >= 0 THEN h \div 2 ELSE -((-h) \div 2)

\* the float64 arguments of auditLog, as halves
AuditLogArgs == {<<>>} \cup {<<h>> : h \in (-3)..(2 * MaxCap + 1)}

\* auditLog.CreateFilter, for no argument or a float64 argument
auditLogCreateFilter(args) ==
    IF Len(args) = 0
    THEN [name |-> AuditLogName, maxBodyLog |-> 0]
    ELSE [name |-> AuditLogName, maxBodyLog |-> IntOf(args[1])]

\* newTeeBody
newTeeBody(maxTee) == [buffer |-> <<>>, maxTee |-> maxTee]

Write_ReportRetained(tb, b) ==
    IF tb.maxTee < 0
    THEN [tb |-> [tb EXCEPT !.buffer = @ \o b], n |-> Len(b), err |-> nil]
    ELSE LET wl == IF Len(b) >= tb.maxTee THEN tb.maxTee ELSE Len(b)
         IN  [tb |-> [buffer |-> tb.buffer \o SubSeq(b, 1, wl),
                      maxTee |-> tb.maxTee - wl],
              n |-> wl, err |-> nil]

Write_NoCount(tb, b) ==
    IF tb.maxTee < 0
    THEN [tb |-> [tb EXCEPT !.buffer = @ \o b], n |-> Len(b), err |-> nil]
    ELSE LET wl == IF Len(b) >= tb.maxTee THEN tb.maxTee ELSE Len(b)
         IN  [tb |-> [buffer |-> tb.buffer \o SubSeq(b, 1, wl),
                      maxTee |-> tb.maxTee],
              n |-> Len(b), err |-> nil]

Write_ShortWrite(tb, b) ==
    IF tb.maxTee < 0
    THEN [tb |-> [tb EXCEPT !.buffer = @ \o b], n |-> Len(b), err |-> nil]
    ELSE LET wl == IF Len(b) >= tb.maxTee THEN tb.maxTee ELSE Len(b)
         IN  [tb |-> [buffer |-> tb.buffer \o SubSeq(b, 1, wl),
                      maxTee |-> tb.maxTee - wl],
              n |-> wl, err |-> IF wl < Len(b) THEN errShortWrite ELSE nil]

\* teeBody.Write: the wrapper after the write, the count and the error
\* it reports
Write(tb, b) ==
    IF tb.maxTee < 0
    THEN [tb |-> [tb EXCEPT !.buffer = @ \o b], n |-> Len(b), err |-> nil]
    ELSE LET wl == IF Len(b) >= tb.maxTee THEN tb.maxTee ELSE Len(b)
         IN  [tb |-> [buffer |-> tb.buffer \o SubSeq(b, 1, wl),
                      maxTee |-> tb.maxTee - wl],
              n |-> Len(b), err |-> nil]

\* what a Read of the original body can return: some of the bytes left, or
\* all of them with EOF
RawReads(b) ==
    {[data |-> SubSeq(Rest(b), 1, m), err |-> nil] : m \in 1..Len(Rest(b))}
    \cup {[data |-> Rest(b), err |-> EOF]}

\* teeBody.Read, through the wrappers k, k+1, ... of ts: io.TeeReader writes
\* what the wrapped reader returned into the wrapper, and returns it unless
\* that write fails
RECURSIVE Read(_, _, _)
Read(ts, k, res) ==
    IF k > Len(ts) THEN [tees |-> ts, data |-> res.data, err |-> res.err]
    ELSE IF Len(res.data) = 0 THEN Read(ts, k + 1, res)
    ELSE LET w == Write(ts[k], res.data)
         IN  IF w.err # nil
             THEN Read([ts EXCEPT ![k] = w.tb], k + 1,
                       [data |-> SubSeq(res.data, 1, w.n), err |-> w.err])
             ELSE Read([ts EXCEPT ![k] = w.tb], k + 1, res)

Drain_None(ts, b) == [tees |-> ts, body |-> b]

\* auditLog.Response, io.Copy / io.CopyN: the rest of the body of the
\* outermost wrapper, all of it or at most maxTee bytes, is read through
\* the inner wrappers and appended to the buffer of the outermost one
Drain(ts, b) ==
    LET top == ts[Len(ts)]
        n == IF top.maxTee < 0 \/ top.maxTee >= Len(Rest(b))
             THEN Len(Rest(b)) ELSE top.maxTee
        in == Read(SubSeq(ts, 1, Len(ts) - 1), 1,
                   [data |-> SubSeq(Rest(b), 1, n), err |-> nil])
    IN  [tees |-> Append(in.tees, [top EXCEPT !.buffer = @ \o in.data]),
         body |-> [b EXCEPT !.pos = @ + n]]

NoStatus == [none |-> TRUE]

authStatus_ReasonOnly(au, rr) ==
    IF rr # ""
    THEN [User |-> au, Rejected |-> TRUE, Reason |-> rr]
    ELSE NoStatus

authStatus_AlwaysRejected(au, rr) ==
    IF au # "" \/ rr # ""
    THEN [User |-> au, Rejected |-> TRUE, Reason |-> rr]
    ELSE NoStatus

\* auditLog.Response: the authStatusDoc of the record, NoStatus for nil
authStatus(au, rr) ==
    IF au # "" \/ rr # ""
    THEN IF rr # ""
         THEN [User |-> au, Rejected |-> TRUE, Reason |-> rr]
         ELSE [User |-> au, Rejected |-> FALSE, Reason |-> ""]
    ELSE NoStatus

\* sb[key].(string): "" when the key is missing
BagString(sb, key) == IF key \in DOMAIN sb THEN sb[key] ELSE ""

\* auditLog.Response: the auditDoc
auditDoc(oreq, status, sb, captured) ==
    [Method |-> oreq.Method,
     Path |-> oreq.Path,
     Status |-> status,
     AuthStatus |-> authStatus(BagString(sb, authUserKey),
                               BagString(sb, authRejectReasonKey)),
     RequestBody |-> captured]

\* json encoding of an authStatusDoc: empty user and reason are omitted
EncodeStatus(st) ==
    [k \in {"rejected"} \cup (IF st.User # "" THEN {"user"} ELSE {})
                        \cup (IF st.Reason # "" THEN {"reason"} ELSE {}) |->
        IF k = "rejected" THEN st.Rejected
        ELSE IF k = "user" THEN st.User
        ELSE st.Reason]

\* json encoding of an auditDoc: a nil authStatus and an empty requestBody
\* are omitted
Encode(doc) ==
    [k \in {"method", "path", "status"}
           \cup (IF doc.AuthStatus # NoStatus THEN {"authStatus"} ELSE {})
           \cup (IF doc.RequestBody # <<>> THEN {"requestBody"} ELSE {}) |->
        IF k = "method" THEN [s |-> doc.Method]
        ELSE IF k = "path" THEN [s |-> doc.Path]
        ELSE IF k = "status" THEN [i |-> doc.Status]
        ELSE IF k = "authStatus" THEN [o |-> EncodeStatus(doc.AuthStatus)]
        ELSE [s |-> doc.RequestBody]]

wraps_PositiveOnly(al) == al.maxBodyLog > 0

\* auditLog.Request: whether the body gets wrapped
wraps(al) == al.maxBodyLog # 0

----------------------------------------------------------------------------
(* The state machine *)

\* the state of a request that no filter handled yet
InitRequest ==
    /\ pc = "Request"
    /\ idx = 1
    /\ f = IF "flt" \in DOMAIN route[1] THEN route[1].flt ELSE NoFilter
    /\ tees = <<>>
    /\ read = NoRead
    /\ log = <<>>
    /\ token = <<>>
    /\ a = NoDoc
    /\ ctx = [StateBag |-> <<>>, served |-> 0]
    /\ net = <<>>
    /\ authRsp = NoRsp
    /\ teamRsp = NoRsp
    /\ backend = <<>>
    /\ rsp = 0
    /\ original = r
    /\ stderr = <<>>
    /\ conf = NoConf
    /\ defs = <<>>
    /\ reqs = <<>>
    /\ operands = NoCall
    /\ overlap = FALSE
    /\ hung = NoHang

\* a route with one auth / authTeam filter, a request without body
Init ==
    /\ \E typ \in {checkScope, checkTeam} :
       \E sargs \in {<<>>} \cup
                    {<<rl>> \o vs : rl \in PolicyRealms, vs \in SeqUpTo(Values, MaxArgs)} :
           route = <<AuthFilter(CreateFilter(typ, sargs))>>
    /\ r \in Requests
    /\ hostStops = TRUE
    /\ rbody = NoBody
    /\ InitRequest

\* filter.Request up to the call of the token validation service
RequestGetToken ==
    /\ pc = "Request"
    /\ route[idx].name \in {AuthName, AuthTeamName}
    /\ LET t == getToken(r)
       IN  IF t.err # nil
           THEN /\ ctx' = unauthorized(ctx, "", missingBearerToken)
                /\ pc' = "returned"
                /\ UNCHANGED <<token, net>>
           ELSE /\ token' = t.token
                /\ net' = Append(net, validateRequest(t.token))
                /\ pc' = "validate"
                /\ UNCHANGED ctx
    /\ UNCHANGED <<f, r, a, authRsp, teamRsp, backend, rsp, idx, pipeVars>>

RequestValidated_ScopeForAll ==
    /\ pc = "validate"
    /\ \E answer \in IdentityResponses :
        LET res == validate(answer)
        IN  /\ authRsp' = answer
            /\ IF res.err # nil
               THEN /\ ctx' = unauthorized(ctx, "", validateReason(res.err))
                    /\ pc' = "returned"
                    /\ UNCHANGED <<a, net>>
               ELSE /\ a' = res.doc
                    /\ IF ~validateRealm(f, res.doc)
                       THEN /\ ctx' = unauthorized(ctx, res.doc.Uid, invalidRealm)
                            /\ pc' = "returned"
                            /\ UNCHANGED net
                       ELSE IF f.typ \in {checkScope, checkTeam}
                       THEN /\ ctx' = IF ~validateScope(f, res.doc)
                                      THEN unauthorized(ctx, res.doc.Uid, invalidScope)
                                      ELSE authorized(ctx, res.doc.Uid)
                            /\ pc' = "returned"
                            /\ UNCHANGED net
                       ELSE IF ~validateTeamCalls(f)
                       THEN /\ ctx' = authorized(ctx, res.doc.Uid)
                            /\ pc' = "returned"
                            /\ UNCHANGED net
                       ELSE /\ net' = Append(net, getTeamsRequest(res.doc.Uid, token))
                            /\ pc' = "getTeams"
                            /\ UNCHANGED ctx
    /\ UNCHANGED <<f, r, token, teamRsp, backend, rsp, idx, pipeVars>>

\* filter.Request from the answer of the token validation service up to
\* its return, or up to the call of the team service
RequestValidated ==
    /\ pc = "validate"
    /\ \E answer \in IdentityResponses :
        LET res == validate(answer)
        IN  /\ authRsp' = answer
            /\ IF res.err # nil
               THEN /\ ctx' = unauthorized(ctx, "", validateReason(res.err))
                    /\ pc' = "returned"
                    /\ UNCHANGED <<a, net>>
               ELSE /\ a' = res.doc
                    /\ IF ~validateRealm(f, res.doc)
                       THEN /\ ctx' = unauthorized(ctx, res.doc.Uid, invalidRealm)
                            /\ pc' = "returned"
                            /\ UNCHANGED net
                       ELSE IF f.typ = checkScope
                       THEN /\ ctx' = IF ~validateScope(f, res.doc)
                                      THEN unauthorized(ctx, res.doc.Uid, invalidScope)
                                      ELSE authorized(ctx, res.doc.Uid)
                            /\ pc' = "returned"
                            /\ UNCHANGED net
                       ELSE IF ~validateTeamCalls(f)
                       THEN /\ ctx' = authorized(ctx, res.doc.Uid)
                            /\ pc' = "returned"
                            /\ UNCHANGED net
                       ELSE /\ net' = Append(net, getTeamsRequest(res.doc.Uid, token))
                            /\ pc' = "getTeams"
                            /\ UNCHANGED ctx
    /\ UNCHANGED <<f, r, token, teamRsp, backend, rsp, idx, pipeVars>>

\* filter.Request from the answer of the team service to its return
RequestTeams ==
    /\ pc = "getTeams"
    /\ \E answer \in TeamResponses :
        /\ teamRsp' = answer
        /\ ctx' = teamOutcome(ctx, a, validateTeam(f, answer))
    /\ pc' = "returned"
    /\ UNCHANGED <<f, r, token, a, net, authRsp, backend, rsp, idx, pipeVars>>

\* the proxy, when a filter returned and the route has more filters: the
\* Request of the next filter runs
ProxyNextFilter ==
    /\ pc = "returned"
    /\ idx < Len(route)
    /\ ~(ctx.served # 0 /\ hostStops)
    /\ idx' = idx + 1
    /\ pc' = "Request"
    /\ f' = IF route[idx + 1].name \in {AuthName, AuthTeamName}
            THEN route[idx + 1].flt ELSE f
    /\ token' = <<>>
    /\ a' = NoDoc
    /\ authRsp' = NoRsp
    /\ teamRsp' = NoRsp
    /\ UNCHANGED <<r, ctx, net, backend, rsp, pipeVars>>

\* the proxy, after the filters of the route: the served response goes to
\* the client and the backend is bypassed
ProxyServed ==
    /\ pc = "returned"
    /\ ctx.served # 0
    /\ IF hostStops THEN TRUE ELSE idx = Len(route)
    /\ rsp' = ctx.served
    /\ idx' = LastAuditLog(route, idx)
    /\ pc' = IF LastAuditLog(route, idx) = 0 THEN "done" ELSE "Response"
    /\ UNCHANGED <<f, r, token, a, ctx, net, authRsp, teamRsp, backend, pipeVars>>

\* the proxy, after the filters of the route: the request goes to the
\* backend, whose answer goes to the client
ProxyForward ==
    /\ pc = "returned"
    /\ ctx.served = 0
    /\ idx = Len(route)
    /\ backend' = Append(backend, r)
    /\ IF rbody = NoBody
       THEN /\ rsp' = StatusOK
            /\ idx' = LastAuditLog(route, idx)
            /\ pc' = IF LastAuditLog(route, idx) = 0 THEN "done" ELSE "Response"
       ELSE /\ pc' = "backend"
            /\ UNCHANGED <<rsp, idx>>
    /\ UNCHANGED <<f, r, token, a, ctx, net, authRsp, teamRsp, pipeVars>>

Next ==
    \/ RequestGetToken
    \/ RequestValidated
    \/ RequestTeams
    \/ ProxyServed
    \/ ProxyForward

Spec == Init /\ [][Next]_vars

\* the policies of the filters of a chain: auth(), auth("/immortals"),
\* authTeam("", "a")
ChainFilters ==
    { CreateFilter(checkScope, <<>>),
      CreateFilter(checkScope, <<"/immortals">>),
      CreateFilter(checkTeam, <<"", "a">>) }

\* a route with one or two auth / authTeam filters, a request without body
InitChain ==
    /\ route \in {<<AuthFilter(f1)>> : f1 \in ChainFilters} \cup
                {<<AuthFilter(f1), AuthFilter(f2)>> : f1, f2 \in ChainFilters}
    /\ r \in {[Header |-> NoHeader],
              [Header |-> Header1(authHeaderName, Bearer \o <<"t">>)]}
    /\ hostStops \in BOOLEAN
    /\ rbody = NoBody
    /\ InitRequest

NextChain ==
    \/ RequestGetToken
    \/ RequestValidated
    \/ RequestTeams
    \/ ProxyNextFilter
    \/ ProxyServed
    \/ ProxyForward

SpecChain == InitChain /\ [][NextChain]_vars

\* auditLog.Request
AuditLogRequest ==
    /\ pc = "Request"
    /\ route[idx].name = AuditLogName
    /\ tees' = IF wraps(route[idx])
               THEN Append(tees, newTeeBody(route[idx].maxBodyLog))
               ELSE tees
    /\ pc' = "returned"
    /\ UNCHANGED <<f, r, token, a, ctx, net, authRsp, teamRsp, backend, rsp,
                   idx, route, hostStops, rbody, read, log, original, stderr, conf,
                   defs, reqs, callVars>>

\* the backend reads from the body of the request it got
BackendRead ==
    /\ pc = "backend"
    /\ \E raw \in RawReads(rbody) :
        LET got == Read(tees, 1, raw)
        IN  /\ rbody' = [rbody EXCEPT !.pos = @ + Len(raw.data)]
            /\ tees' = got.tees
            /\ read' = [raw |-> raw, got |-> [data |-> got.data, err |-> got.err]]
    /\ UNCHANGED <<f, r, pc, token, a, ctx, net, authRsp, teamRsp, backend, rsp,
                   idx, route, hostStops, log, original, stderr, conf, defs, reqs,
                   callVars>>

\* the backend answers, having read all, a part or nothing of the body
BackendReturn ==
    /\ pc = "backend"
    /\ rsp' = StatusOK
    /\ idx' = LastAuditLog(route, idx)
    /\ pc' = IF LastAuditLog(route, idx) = 0 THEN "done" ELSE "Response"
    /\ UNCHANGED <<f, r, token, a, ctx, net, authRsp, teamRsp, backend, pipeVars>>

\* auditLog.Response
AuditLogResponse ==
    /\ pc = "Response"
    /\ LET d == IF Len(tees) > 0
                THEN Drain(tees, rbody)
                ELSE [tees |-> tees, body |-> rbody]
           captured == IF Len(tees) > 0
                       THEN d.tees[Len(d.tees)].buffer ELSE <<>>
           rec == Encode(auditDoc(OriginalRequest, rsp, ctx.StateBag, captured))
       IN  /\ tees' = d.tees
           /\ rbody' = d.body
           /\ \E ok \in BOOLEAN :
                 /\ log' = writeRecord(log, stderr, rec, ok).writer
                 /\ stderr' = writeRecord(log, stderr, rec, ok).stderr
    /\ idx' = LastAuditLog(route, idx - 1)
    /\ pc' = IF LastAuditLog(route, idx - 1) = 0 THEN "done" ELSE "Response"
    /\ UNCHANGED <<f, r, token, a, ctx, net, authRsp, teamRsp, backend, rsp,
                   route, hostStops, read, original, conf, defs, reqs,
                   callVars>>

\* the Request of a modPath filter of the proxy: the path of the request
\* the filters work on gets replaced
ModPathRequest ==
    /\ pc = "Request"
    /\ route[idx].name = ModPathName
    /\ r' = [r EXCEPT !.Path = route[idx].path]
    /\ pc' = "returned"
    /\ UNCHANGED <<f, token, a, ctx, net, authRsp, teamRsp, backend, rsp, idx,
                   pipeVars>>

\* methods and paths of requests
Methods == {"GET", "POST"}
Paths == {"/", "/es/x"}

\* the auditLog filters of the routes
AuditLogs == {auditLogCreateFilter(args) : args \in AuditLogArgs}

\* the policies of the filters behind an auditLog filter:
\* auth("/immortals", "a"), authTeam("", "a")
AuditedFilters ==
    { CreateFilter(checkScope, <<"/immortals", "a">>),
      CreateFilter(checkTeam, <<"", "a">>) }

\* routes auditLog, auditLog -> auditLog and auditLog -> auth() for requests
\* without Authorization header and with a body of any length; or routes
\* auditLog -> auth / authTeam for any request with a body of two bytes; or
\* routes auditLog() -> modPath and auditLog() -> auth() -> modPath for
\* requests of any method and path with an empty body
InitAudit ==
    /\ \/ /\ route \in {<<al>> : al \in AuditLogs} \cup
                       {<<al1, al2>> : al1, al2 \in AuditLogs} \cup
                       {<<al, AuthFilter(CreateFilter(checkScope, <<>>))>> :
                            al \in AuditLogs}
          /\ r = Inbound([Header |-> NoHeader], "GET", "/")
          /\ rbody \in {Body(n) : n \in 0..MaxBody}
       \/ /\ route \in {<<al, AuthFilter(flt)>> :
                            al \in {auditLogCreateFilter(<<>>),
                                    auditLogCreateFilter(<<2>>)},
                            flt \in AuditedFilters}
          /\ r \in {Inbound(req, "GET", "/") : req \in Requests}
          /\ rbody = Body(2)
       \/ /\ route \in {<<auditLogCreateFilter(<<>>), flt,
                           [name |-> ModPathName, path |-> p]>> :
                            flt \in {AuthFilter(CreateFilter(checkScope, <<>>))},
                            p \in Paths}
                      \cup
                      {<<auditLogCreateFilter(<<>>),
                         [name |-> ModPathName, path |-> p]>> : p \in Paths}
          /\ r \in {Inbound(req, m, p) :
                        req \in {[Header |-> NoHeader],
                                 [Header |-> Header1(authHeaderName, Bearer \o <<"t">>)]},
                        m \in Methods, p \in Paths}
          /\ rbody = Body(0)
    /\ hostStops = TRUE
    /\ InitRequest

NextAudit ==
    \/ RequestGetToken
    \/ RequestValidated
    \/ RequestTeams
    \/ AuditLogRequest
    \/ ModPathRequest
    \/ ProxyNextFilter
    \/ ProxyServed
    \/ ProxyForward
    \/ BackendRead
    \/ BackendReturn
    \/ AuditLogResponse

SpecAudit == InitAudit /\ [][NextAudit]_vars

----------------------------------------------------------------------------
(* Requests handled concurrently by the filters of one route *)

\* a request no filter handled yet, with the local variables of
\* filter.Request and its own filter context
NewRequest(req) ==
    [r |-> req, pc |-> "Request", token |-> <<>>, a |-> NoDoc,
     ctx |-> [StateBag |-> <<>>, served |-> 0], net |-> <<>>,
     authRsp |-> NoRsp, teamRsp |-> NoRsp, rsp |-> 0]

Locals_OfFilter(rs, i) ==
    [rs[i] EXCEPT !.a = IF rs[1].a # NoDoc THEN rs[1].a ELSE rs[i].a]

\* the local variables and the filter context of request i
Locals(rs, i) == rs[i]

\* the answers of the services to the concurrent requests
ConcIdentityResponses ==
    {TransportFailure} \cup
    {HttpRsp(StatusOK, Json(d)) :
        d \in {[Uid |-> "jdoe", Realm |-> "/immortals", Scopes |-> <<"a">>],
               [Uid |-> "", Realm |-> "/immortals", Scopes |-> <<>>],
               [Uid |-> "jdoe", Realm |-> "", Scopes |-> <<"a">>]}}

ConcTeamResponses ==
    {TransportFailure, HttpRsp(StatusOK, Json(<<[Id |-> "a"]>>)),
     HttpRsp(StatusOK, Json(<<>>))}

\* the proxy once the filter returned: the response it served, or the
\* response of the backend
Responded(st) ==
    [st EXCEPT !.pc = "Response",
               !.rsp = IF st.ctx.served # 0 THEN st.ctx.served ELSE StatusOK]

\* filter.Request of request i up to the call of the token validation
\* service
ConcGetToken(i) ==
    /\ reqs[i].pc = "Request"
    /\ LET st == Locals(reqs, i)
           t == getToken(st.r)
       IN  reqs' = [reqs EXCEPT ![i] =
              IF t.err # nil
              THEN Responded([st EXCEPT
                       !.ctx = unauthorized(st.ctx, "", missingBearerToken)])
              ELSE [st EXCEPT !.token = t.token,
                              !.net = Append(st.net, validateRequest(t.token)),
                              !.pc = "validate"]]
    /\ UNCHANGED <<f, r, pc, token, a, ctx, net, authRsp, teamRsp, backend, rsp,
                   idx, route, hostStops, rbody, tees, read, log, original,
                   stderr, conf, defs, callVars>>

\* filter.Request of request i from the answer of the token validation
\* service up to its return, or up to the call of the team service
ConcValidated(i) ==
    /\ reqs[i].pc = "validate"
    /\ \E answer \in ConcIdentityResponses :
        LET st == [Locals(reqs, i) EXCEPT !.authRsp = answer]
            res == validate(answer)
        IN  reqs' = [reqs EXCEPT ![i] =
              IF res.err # nil
              THEN Responded([st EXCEPT
                       !.ctx = unauthorized(st.ctx, "", validateReason(res.err))])
              ELSE IF ~validateRealm(f, res.doc)
              THEN Responded([st EXCEPT
                       !.a = res.doc,
                       !.ctx = unauthorized(st.ctx, res.doc.Uid, invalidRealm)])
              ELSE IF f.typ = checkScope
              THEN Responded([st EXCEPT
                       !.a = res.doc,
                       !.ctx = IF ~validateScope(f, res.doc)
                               THEN unauthorized(st.ctx, res.doc.Uid, invalidScope)
                               ELSE authorized(st.ctx, res.doc.Uid)])
              ELSE IF ~validateTeamCalls(f)
              THEN Responded([st EXCEPT
                       !.a = res.doc,
                       !.ctx = authorized(st.ctx, res.doc.Uid)])
              ELSE [st EXCEPT
                       !.a = res.doc,
                       !.net = Append(st.net,
                                      getTeamsRequest(res.doc.Uid, st.token)),
                       !.pc = "getTeams"]]
    /\ UNCHANGED <<f, r, pc, token, a, ctx, net, authRsp, teamRsp, backend, rsp,
                   idx, route, hostStops, rbody, tees, read, log, original,
                   stderr, conf, defs, callVars>>

\* filter.Request of request i from the answer of the team service to its
\* return
ConcTeams(i) ==
    /\ reqs[i].pc = "getTeams"
    /\ \E answer \in ConcTeamResponses :
        LET st == [Locals(reqs, i) EXCEPT !.teamRsp = answer]
        IN  reqs' = [reqs EXCEPT ![i] =
              Responded([st EXCEPT
                  !.ctx = teamOutcome(st.ctx, st.a, validateTeam(f, answer))])]
    /\ UNCHANGED <<f, r, pc, token, a, ctx, net, authRsp, teamRsp, backend, rsp,
                   idx, route, hostStops, rbody, tees, read, log, original,
                   stderr, conf, defs, callVars>>

\* auditLog.Response of request i: its record goes to the writer that the
\* requests share
ConcResponse(i) ==
    /\ reqs[i].pc = "Response"
    /\ LET st == Locals(reqs, i)
       IN  log' = Append(log, Encode(auditDoc(st.r, st.rsp, st.ctx.StateBag, <<>>)))
    /\ reqs' = [reqs EXCEPT ![i].pc = "done"]
    /\ UNCHANGED <<f, r, pc, token, a, ctx, net, authRsp, teamRsp, backend, rsp,
                   idx, route, hostStops, rbody, tees, read, original,
                   stderr, conf, defs, callVars>>

\* a route auditLog() -> auth / authTeam and the requests that reach it at
\* the same time, with and without a bearer token
InitConc ==
    /\ f \in AuditedFilters \cup {CreateFilter(checkTeam, <<>>)}
    /\ route = <<auditLogCreateFilter(<<>>), AuthFilter(f)>>
    /\ reqs \in [1..NumRequests ->
                   {NewRequest(Inbound(req, "GET", "/")) :
                       req \in {[Header |-> NoHeader],
                                [Header |-> Header1(authHeaderName,
                                                    Bearer \o <<"t">>)]}}]
    /\ r = [Header |-> NoHeader]
    /\ pc = "concurrent"
    /\ idx = 0
    /\ hostStops = TRUE
    /\ rbody = NoBody
    /\ tees = <<>>
    /\ read = NoRead
    /\ log = <<>>
    /\ token = <<>>
    /\ a = NoDoc
    /\ ctx = [StateBag |-> <<>>, served |-> 0]
    /\ net = <<>>
    /\ authRsp = NoRsp
    /\ teamRsp = NoRsp
    /\ backend = <<>>
    /\ rsp = 0
    /\ original = r
    /\ stderr = <<>>
    /\ conf = NoConf
    /\ defs = <<>>
    /\ operands = NoCall
    /\ overlap = FALSE
    /\ hung = NoHang

NextConc ==
    \E i \in 1..NumRequests :
        \/ ConcGetToken(i)
        \/ ConcValidated(i)
        \/ ConcTeams(i)
        \/ ConcResponse(i)

SpecConc == InitConc /\ [][NextConc]_vars

\* filter.Request for a request handled alone: the filter context it
\* leaves, given the answers of the services
RequestAlone(flt, req, authAnswer, teamAnswer) ==
    LET c == [StateBag |-> <<>>, served |-> 0]
        t == getToken(req)
        res == validate(authAnswer)
    IN  IF t.err # nil THEN unauthorized(c, "", missingBearerToken)
        ELSE IF res.err # nil THEN unauthorized(c, "", validateReason(res.err))
        ELSE IF ~validateRealm(flt, res.doc)
        THEN unauthorized(c, res.doc.Uid, invalidRealm)
        ELSE IF flt.typ = checkScope
        THEN IF ~validateScope(flt, res.doc)
             THEN unauthorized(c, res.doc.Uid, invalidScope)
             ELSE authorized(c, res.doc.Uid)
        ELSE IF ~validateTeamCalls(flt) THEN authorized(c, res.doc.Uid)
        ELSE teamOutcome(c, res.doc, validateTeam(flt, teamAnswer))

----------------------------------------------------------------------------
(* The configuration: the arguments of the filters, the flags of the command *)

\* the arguments of a filter definition: strings and numbers
StringArg(v) == [t |-> "string", v |-> v]
NumberArg(n) == [t |-> "float64", v |-> n]

getStrings_FirstOnly(args) ==
    IF Len(args) > 0 /\ args[1].t # "string"
    THEN [err |-> ErrInvalidFilterParameters, s |-> <<>>]
    ELSE [err |-> nil, s |-> [i \in 1..Len(args) |-> args[i].v]]

\* getStrings
getStrings(args) ==
    IF \E i \in 1..Len(args) : args[i].t # "string"
    THEN [err |-> ErrInvalidFilterParameters, s |-> <<>>]
    ELSE [err |-> nil, s |-> [i \in 1..Len(args) |-> args[i].v]]

\* the check of the spec with the given name
TypOf(name) == IF name = AuthName THEN checkScope ELSE checkTeam

\* spec.CreateFilter, for arguments of any type
specCreateFilter(typ, args) ==
    LET g == getStrings(args)
    IN  IF g.err # nil
        THEN [err |-> g.err, filter |-> NoFilter]
        ELSE [err |-> nil, filter |-> CreateFilter(typ, g.s)]

\* the position of the first comma of s, 0 if it has none
Comma(s) ==
    IF \E i \in 1..Len(s) : s[i] = ","
    THEN CHOOSE i \in 1..Len(s) : s[i] = "," /\ \A j \in 1..(i - 1) : s[j] # ","
    ELSE 0

\* strings.Split(s, ",")
RECURSIVE Split(_)
Split(s) ==
    IF Comma(s) = 0 THEN <<s>>
    ELSE <<SubSeq(s, 1, Comma(s) - 1)>> \o Split(SubSeq(s, Comma(s) + 1, Len(s)))

\* main: the arguments of the auth / authTeam filter of the single route
filterArgs(realm, args) ==
    (IF realm # "" THEN <<realm>> ELSE <<>>)
    \o (IF args # <<>>
        THEN (IF realm = "" THEN <<"">> ELSE <<>>) \o Split(args)
        ELSE <<>>)

\* the command ends with the usage message
Usage == [exit |-> TRUE, file |-> FALSE, filters |-> <<>>]

main_AlwaysDrop(fl) ==
    IF fl.targetAddress = "" /\ fl.routesFile = "" THEN Usage
    ELSE IF fl.targetAddress # "" /\ fl.routesFile # "" THEN Usage
    ELSE IF /\ fl.targetAddress = ""
            /\ (fl.preserveHeader \/ fl.realm # "" \/ fl.scopes # <<>>
                    \/ fl.teams # <<>>)
    THEN Usage
    ELSE IF fl.scopes # <<>> /\ fl.teams # <<>> THEN Usage
    ELSE IF fl.targetAddress = ""
    THEN [exit |-> FALSE, file |-> TRUE, filters |-> <<>>]
    ELSE LET teamCheckMode == fl.teams # <<>>
             args == IF teamCheckMode THEN fl.teams ELSE fl.scopes
             name == IF teamCheckMode THEN AuthTeamName ELSE AuthName
             fa == filterArgs(fl.realm, args)
         IN  [exit |-> FALSE, file |-> FALSE,
              filters |->
                <<[Name |-> name,
                   Args |-> [i \in 1..Len(fa) |-> StringArg(fa[i])]]>>
                \o <<[Name |-> DropRequestHeaderName,
                      Args |-> <<StringArg(authHeaderName)>>]>>]

\* main: the command ends with the usage message, or runs the proxy with
\* the routes of the routes file, or with the single route of these filters
main(fl) ==
    IF fl.targetAddress = "" /\ fl.routesFile = "" THEN Usage
    ELSE IF fl.targetAddress # "" /\ fl.routesFile # "" THEN Usage
    ELSE IF /\ fl.targetAddress = ""
            /\ (fl.preserveHeader \/ fl.realm # "" \/ fl.scopes # <<>>
                    \/ fl.teams # <<>>)
    THEN Usage
    ELSE IF fl.scopes # <<>> /\ fl.teams # <<>> THEN Usage
    ELSE IF fl.targetAddress = ""
    THEN [exit |-> FALSE, file |-> TRUE, filters |-> <<>>]
    ELSE LET teamCheckMode == fl.teams # <<>>
             args == IF teamCheckMode THEN fl.teams ELSE fl.scopes
             name == IF teamCheckMode THEN AuthTeamName ELSE AuthName
             fa == filterArgs(fl.realm, args)
         IN  [exit |-> FALSE, file |-> FALSE,
              filters |->
                <<[Name |-> name,
                   Args |-> [i \in 1..Len(fa) |-> StringArg(fa[i])]]>>
                \o (IF ~fl.preserveHeader
                    THEN <<[Name |-> DropRequestHeaderName,
                            Args |-> <<StringArg(authHeaderName)>>]>>
                    ELSE <<>>)]

\* the values of the scopes and of the teams flag
FlagValues == SeqUpTo({"a", ","}, MaxFlag)

\* the flags of the command
Flags ==
    {[mode |-> "flags", targetAddress |-> ta, routesFile |-> rf,
      preserveHeader |-> ph, realm |-> rl, scopes |-> vs[1], teams |-> vs[2]] :
        ta \in {"", "https://www.example.org"}, rf \in {"", "routes.eskip"},
        ph \in BOOLEAN, rl \in PolicyRealms,
        vs \in {<<v, <<>>>> : v \in FlagValues} \cup
               {<<<<>>, v>> : v \in FlagValues} \cup {<<<<"a">>, <<"a">>>>}}

\* the arguments of the auth / authTeam filters of a routes file
FileArgs ==
    SeqUpTo({StringArg(""), StringArg("/immortals"), StringArg("a"),
             NumberArg(1)}, MaxArgs + 1)

\* routes files with one auth or authTeam filter
Files ==
    {[mode |-> "file", filters |-> <<[Name |-> n, Args |-> args]>>] :
        n \in {AuthName, AuthTeamName}, args \in FileArgs}

\* the command starts
InitConfig ==
    /\ conf \in Flags \cup Files
    /\ defs = <<>>
    /\ route = <<>>
    /\ pc = "main"
    /\ r = [Header |-> NoHeader]
    /\ f = NoFilter
    /\ idx = 0
    /\ hostStops = TRUE
    /\ rbody = NoBody
    /\ tees = <<>>
    /\ read = NoRead
    /\ log = <<>>
    /\ token = <<>>
    /\ a = NoDoc
    /\ ctx = [StateBag |-> <<>>, served |-> 0]
    /\ net = <<>>
    /\ authRsp = NoRsp
    /\ teamRsp = NoRsp
    /\ backend = <<>>
    /\ rsp = 0
    /\ original = r
    /\ stderr = <<>>
    /\ reqs = <<>>
    /\ operands = NoCall
    /\ overlap = FALSE
    /\ hung = NoHang

\* main, for the flags of the command
Main ==
    /\ pc = "main"
    /\ conf.mode = "flags"
    /\ LET m == main(conf)
       IN  /\ defs' = m.filters
           /\ pc' = IF m.exit THEN "exit" ELSE IF m.file THEN "file" ELSE "create"
    /\ UNCHANGED <<f, r, token, a, ctx, net, authRsp, teamRsp, backend, rsp, idx,
                   route, hostStops, rbody, tees, read, log, original, stderr,
                   conf, reqs, callVars>>

\* the proxy reads the filter definitions of a route of the routes file
LoadRoute ==
    /\ pc = "main"
    /\ conf.mode = "file"
    /\ defs' = conf.filters
    /\ pc' = "create"
    /\ UNCHANGED <<f, r, token, a, ctx, net, authRsp, teamRsp, backend, rsp, idx,
                   route, hostStops, rbody, tees, read, log, original, stderr,
                   conf, reqs, callVars>>

\* the filter of the route that a definition makes
Created(def) ==
    IF def.Name \in {AuthName, AuthTeamName}
    THEN LET c == specCreateFilter(TypOf(def.Name), def.Args)
         IN  [err |-> c.err,
              filter |-> IF c.err = nil THEN AuthFilter(c.filter) ELSE NoFilter]
    ELSE [err |-> nil, filter |-> [name |-> def.Name, args |-> def.Args]]

\* the proxy creates the filters of the route from their definitions; a
\* route with a filter that cannot be created is dropped and the error
\* printed
CreateFilters ==
    /\ pc = "create"
    /\ IF \E i \in 1..Len(defs) : Created(defs[i]).err # nil
       THEN /\ pc' = "invalid"
            /\ stderr' = Append(stderr, ErrInvalidFilterParameters)
            /\ UNCHANGED <<route, f>>
       ELSE /\ pc' = "ready"
            /\ route' = [i \in 1..Len(defs) |-> Created(defs[i]).filter]
            /\ f' = Created(defs[1]).filter.flt
            /\ UNCHANGED stderr
    /\ UNCHANGED <<r, token, a, ctx, net, authRsp, teamRsp, backend, rsp, idx,
                   hostStops, rbody, tees, read, log, original, conf, defs, reqs,
                   callVars>>

NextConfig ==
    \/ Main
    \/ LoadRoute
    \/ CreateFilters

SpecConfig == InitConfig /\ [][NextConfig]_vars

----------------------------------------------------------------------------
(* The filter of package hackauth *)

\* strings.Trim(h, " ")
RECURSIVE Trim(_)
Trim(h) ==
    IF h = <<>> THEN h
    ELSE IF Head(h) = " " THEN Trim(Tail(h))
    ELSE IF h[Len(h)] = " " THEN Trim(SubSeq(h, 1, Len(h) - 1))
    ELSE h

\* the last of the pieces of strings.Split(h, " ")
RECURSIVE LastPiece(_)
LastPiece(h) ==
    IF \E i \in 1..Len(h) : h[i] = " "
    THEN LastPiece(Tail(h))
    ELSE h

\* hackauth: getToken
hackGetToken(req) ==
    LET h == Trim(HeaderGet(req.Header, authHeaderName))
    IN  IF h = <<>>
        THEN [err |-> "missing authorization header", token |-> <<>>]
        ELSE [err |-> nil, token |-> LastPiece(h)]

\* hackauth: jsonGet, the result for an answer of the service: the body is
\* decoded whatever the status of the answer
hackJsonGet(answer) ==
    IF answer.kind = "transport" THEN [err |-> errTransport, doc |-> NoDoc]
    ELSE IF ~answer.body.decodable THEN [err |-> errDecode, doc |-> NoDoc]
    ELSE [err |-> nil, doc |-> answer.body.doc]

\* hackauth: authClient.validate, the request: the token is the end of the
\* url, no header is set
hackValidateRequest(tok) ==
    jsonGetRequest([base |-> "authUrlBase", tail |-> tok], <<>>)

\* hackauth: authClient.validate, the result
hackValidate(answer) ==
    LET res == hackJsonGet(answer)
    IN  IF res.err # nil
        THEN [uid |-> "", realm |-> "", err |-> res.err]
        ELSE [uid |-> res.doc.Uid, realm |-> res.doc.Realm, err |-> nil]

\* hackauth: teamClient.getTeams, the result
hackGetTeams(answer) ==
    LET res == hackJsonGet(answer)
    IN  IF res.err # nil
        THEN [err |-> res.err, teams |-> <<>>]
        ELSE [err |-> nil, teams |-> [i \in 1..Len(res.doc) |-> res.doc[i].Id]]

\* hackauth: spec.CreateFilter, for string arguments
hackCreateFilter(sargs) ==
    IF Len(sargs) > 0
    THEN [realm |-> sargs[1], teams |-> Tail(sargs)]
    ELSE [realm |-> "", teams |-> <<>>]

\* hackauth: unauthorized
hackUnauthorized(c) == Serve(c, StatusUnauthorized)

\* a json document without uid and realm, as a service sends with an error
ErrorDoc == [Uid |-> "", Realm |-> "", Scopes |-> <<>>]

\* the answers of the token validation service
HackIdentityResponses ==
    IdentityResponses \cup
    {HttpRsp(s, Json(ErrorDoc)) : s \in {StatusUnauthorized, StatusNoContent}}

\* hackauth: filter.Request up to the call of the token validation service
HackGetToken ==
    /\ pc = "Request"
    /\ route[idx].name = HackAuthName
    /\ LET t == hackGetToken(r)
       IN  IF t.err # nil
           THEN /\ ctx' = hackUnauthorized(ctx)
                /\ pc' = "returned"
                /\ UNCHANGED <<token, net>>
           ELSE /\ token' = t.token
                /\ net' = Append(net, hackValidateRequest(t.token))
                /\ pc' = "validate"
                /\ UNCHANGED ctx
    /\ UNCHANGED <<f, r, a, authRsp, teamRsp, backend, rsp, idx, pipeVars>>

\* hackauth: filter.Request from the answer of the token validation
\* service up to its return, or up to the call of the team service
HackValidated ==
    /\ pc = "validate"
    /\ \E answer \in HackIdentityResponses :
        LET v == hackValidate(answer)
        IN  /\ authRsp' = answer
            /\ a' = [Uid |-> v.uid, Realm |-> v.realm]
            /\ IF v.err # nil
               THEN /\ ctx' = hackUnauthorized(ctx)
                    /\ pc' = "returned"
                    /\ UNCHANGED net
               ELSE IF f.realm = ""
               THEN /\ pc' = "returned"
                    /\ UNCHANGED <<ctx, net>>
               ELSE IF v.realm # f.realm
               THEN /\ ctx' = hackUnauthorized(ctx)
                    /\ pc' = "returned"
                    /\ UNCHANGED net
               ELSE IF Len(f.teams) = 0
               THEN /\ pc' = "returned"
                    /\ UNCHANGED <<ctx, net>>
               ELSE /\ net' = Append(net, getTeamsRequest(v.uid, token))
                    /\ pc' = "getTeams"
                    /\ UNCHANGED ctx
    /\ UNCHANGED <<f, r, token, teamRsp, backend, rsp, idx, pipeVars>>

\* hackauth: filter.Request from the answer of the team service to its
\* return
HackTeams ==
    /\ pc = "getTeams"
    /\ \E answer \in TeamResponses :
        LET t == hackGetTeams(answer)
        IN  /\ teamRsp' = answer
            /\ ctx' = IF t.err # nil THEN hackUnauthorized(ctx)
                      ELSE IF \E i \in 1..Len(t.teams), j \in 1..Len(f.teams) :
                                  t.teams[i] = f.teams[j]
                      THEN ctx
                      ELSE hackUnauthorized(ctx)
    /\ pc' = "returned"
    /\ UNCHANGED <<f, r, token, a, net, authRsp, backend, rsp, idx, pipeVars>>

\* a route with one hackauth filter, a request without body
InitHack ==
    /\ \E sargs \in {<<>>} \cup
                    {<<rl>> \o vs : rl \in PolicyRealms, vs \in SeqUpTo(Values, MaxArgs)} :
           route = <<[name |-> HackAuthName, flt |-> hackCreateFilter(sargs)]>>
    /\ r \in Requests
    /\ hostStops = TRUE
    /\ rbody = NoBody
    /\ InitRequest

NextHack ==
    \/ HackGetToken
    \/ HackValidated
    \/ HackTeams
    \/ ProxyServed
    \/ ProxyForward

SpecHack == InitHack /\ [][NextHack]_vars

----------------------------------------------------------------------------
(* The decision of the request, as the state bag holds it *)

Returned == pc \in {"returned", "backend", "Response", "done"}

Reason ==
    IF authRejectReasonKey \in DOMAIN ctx.StateBag
    THEN ctx.StateBag[authRejectReasonKey] ELSE ""

Rejected == authRejectReasonKey \in DOMAIN ctx.StateBag

Authorized ==
    /\ Returned
    /\ authUserKey \in DOMAIN ctx.StateBag
    /\ authRejectReasonKey \notin DOMAIN ctx.StateBag

Calls(base) == Len(SelectSeq(net, LAMBDA q : q.url.base = base))

----------------------------------------------------------------------------
(* Vocabulary of the properties, stated without the helpers of the model *)

\* the value of the incoming Authorization header, <<>> when it is missing
IncomingAuth ==
    IF authHeaderName \in DOMAIN r.Header THEN r.Header[authHeaderName] ELSE <<>>

\* the incoming Authorization header starts with "Bearer "
BearerPrefixed ==
    /\ Len(IncomingAuth) >= 7
    /\ \A i \in 1..7 : IncomingAuth[i] = Bearer[i]

User ==
    IF authUserKey \in DOMAIN ctx.StateBag THEN ctx.StateBag[authUserKey] ELSE ""

\* the service answered 200 with a body that decodes
Success(answer) ==
    /\ answer.kind = "http"
    /\ answer.StatusCode = StatusOK
    /\ answer.body.decodable

\* the call failed at transport level, or the answer's body does not decode
Unavailable(answer) ==
    \/ answer.kind = "transport"
    \/ /\ answer.kind = "http"
       /\ answer.StatusCode = StatusOK
       /\ ~answer.body.decodable

\* the service answered with a status other than 200
Refused(answer) == answer.kind = "http" /\ answer.StatusCode # StatusOK

\* the identity document of the request, when the identity service accepted
IdentityDoc == authRsp.body.doc

Elems(s) == {s[i] : i \in 1..Len(s)}

\* the team set the team service returned, when its lookup succeeded
TeamSet == {teamRsp.body.doc[i].Id : i \in 1..Len(teamRsp.body.doc)}

RealmOk == f.realm = "" \/ IdentityDoc.Realm = f.realm

\* the request passed the identity validation and the realm check
PassedRealm == Success(authRsp) /\ RealmOk

----------------------------------------------------------------------------
(* Properties *)

\* C1: a request whose Authorization header does not start with "Bearer "
\* (missing, or another scheme) is Rejected with missing-bearer-token as soon
\* as filter.Request returned; no request is ever sent to the identity
\* service (nor to the team service), the backend is never invoked and the
\* client gets 401.
C1_MissingBearerRejected ==
    ~BearerPrefixed =>
        /\ net = <<>>
        /\ authRsp = NoRsp
        /\ backend = <<>>
        /\ Returned => Rejected /\ Reason = missingBearerToken
        /\ pc = "done" => rsp = StatusUnauthorized

C1_Witness ==
    /\ pc = "done"
    /\ IncomingAuth = <<"B", "a", "s", "i", "c", " ", "t">>
    /\ Reason = missingBearerToken
    /\ rsp = StatusUnauthorized

\* C2: once filter.Request returned, the decision is Rejected exactly when
\* the filter served a response with status 401, and Authorized exactly when
\* it served none; once the proxy is done, Rejected exactly when the client
\* got the served 401 and the backend was not invoked, Authorized exactly
\* when no response was served and the request was forwarded to the backend.
C2_DecisionMatchesResponse ==
    /\ ~Returned => ctx.served = 0 /\ ~Rejected /\ ~Authorized
    /\ pc # "done" => backend = <<>> /\ rsp = 0
    /\ Returned =>
        /\ Rejected <=> ctx.served = StatusUnauthorized
        /\ Authorized <=> ctx.served = 0
        /\ Rejected \/ Authorized
    /\ pc = "done" =>
        /\ Rejected <=> (rsp = StatusUnauthorized /\ backend = <<>>)
        /\ Authorized <=> (ctx.served = 0 /\ backend = <<r>>)

C2_Witness ==
    /\ pc = "done"
    /\ Rejected
    /\ Reason = invalidScope
    /\ rsp = StatusUnauthorized
    /\ backend = <<>>

\* C3: fail-closed.  Whenever the decision is Authorized, the credential was
\* extracted, the identity service answered 200 with a decodable document,
\* the realm check passed and the scope check (scope kind) or the team check
\* (team kind) passed; a failure of the identity service or of the team
\* service never leads to Authorized.
C3_FailClosed ==
    Authorized =>
        /\ BearerPrefixed
        /\ Success(authRsp)
        /\ a = IdentityDoc
        /\ RealmOk
        /\ f.typ = checkScope =>
              \/ f.args = <<>>
              \/ Elems(f.args) \cap Elems(IdentityDoc.Scopes) # {}
        /\ f.typ = checkTeam =>
              \/ f.args = <<>> /\ teamRsp = NoRsp
              \/ Success(teamRsp) /\ Elems(f.args) \cap TeamSet # {}

C3_Witness ==
    /\ Authorized
    /\ pc = "done"
    /\ f.typ = checkTeam
    /\ f.realm # ""
    /\ Success(teamRsp)
    /\ Len(f.args) = 2

\* C4: with an empty realm and no check values (scope kind or team kind),
\* every request whose token the identity service accepts is Authorized,
\* whatever realm and scopes the identity document carries, and is forwarded.
C4_AuthOnly ==
    (f.realm = "" /\ f.args = <<>> /\ Success(authRsp)) =>
        /\ Returned
        /\ Authorized
        /\ net = <<validateRequest(token)>>
        /\ pc = "done" => rsp = StatusOK /\ backend = <<r>>

C4_Witness ==
    /\ f.realm = "" /\ f.args = <<>> /\ f.typ = checkTeam
    /\ Success(authRsp)
    /\ IdentityDoc.Realm = "/IMMORTALS"
    /\ IdentityDoc.Scopes = <<"a", "A">>
    /\ Authorized
    /\ pc = "done"

\* C5: with a non-empty policy realm R, a request whose identity document
\* realm is not exactly R is Rejected with invalid-realm (the team service is
\* not called); a request whose realm equals R, and every request when the
\* policy realm is empty, proceeds to the scope / team check: the realm is not
\* the reason of a rejection, and the outcome is the one of that check.
C5_RealmCheck ==
    Success(authRsp) =>
        /\ (f.realm # "" /\ IdentityDoc.Realm # f.realm) =>
              /\ Returned
              /\ Rejected
              /\ Reason = invalidRealm
              /\ Calls("teamUrlBase") = 0
        /\ (f.realm = "" \/ IdentityDoc.Realm = f.realm) =>
              /\ Reason # invalidRealm
              /\ f.typ = checkScope =>
                    Returned /\ (Authorized \/ Reason = invalidScope)
              /\ (f.typ = checkTeam /\ f.args = <<>>) => Returned /\ Authorized
              /\ (f.typ = checkTeam /\ f.args # <<>>) =>
                    /\ Calls("teamUrlBase") = 1
                    /\ Returned =>
                          Authorized \/ Reason \in {teamServiceAccess, invalidTeam}

C5_Witness ==
    /\ pc = "done"
    /\ f.realm = "/immortals"
    /\ Success(authRsp)
    /\ IdentityDoc.Realm = "/IMMORTALS"
    /\ Reason = invalidRealm
    /\ rsp = StatusUnauthorized

\* C6 as stated: for scope-kind policies with non-empty check values V, the
\* decision of a request with an identity document is Authorized if and only
\* if V has an element in common with the document's scopes.
C6_ScopeIffIntersect ==
    (f.typ = checkScope /\ f.args # <<>> /\ Returned /\ Success(authRsp)) =>
        (Authorized <=> Elems(f.args) \cap Elems(IdentityDoc.Scopes) # {})

\* C6 amended: for scope-kind policies with non-empty check values V, a
\* request that passed the identity validation and the realm check is
\* Authorized if and only if V has an element in common with the identity
\* document's scopes, and is Rejected with invalid-scope otherwise; a request
\* that did not pass them is Rejected whatever its scopes.
C6_ScopeIffIntersectAfterRealm ==
    (f.typ = checkScope /\ f.args # <<>> /\ Returned) =>
        /\ PassedRealm =>
              /\ Authorized <=> Elems(f.args) \cap Elems(IdentityDoc.Scopes) # {}
              /\ ~Authorized => Reason = invalidScope
        /\ ~PassedRealm => Rejected /\ Reason # invalidScope

C6_Witness ==
    /\ pc = "done"
    /\ f.typ = checkScope
    /\ f.realm = "/immortals"
    /\ f.args = <<"A", "a">>
    /\ PassedRealm
    /\ IdentityDoc.Scopes = <<"a">>
    /\ Authorized

\* C7 as stated: for team-kind policies with non-empty check values V, the
\* decision of a request with an identity document is Authorized if and only
\* if V has an element in common with the team set returned by the team
\* service, and the team service is called exactly once for the request.
C7_TeamIffIntersectOneCall ==
    (f.typ = checkTeam /\ f.args # <<>> /\ Returned /\ Success(authRsp)) =>
        /\ Authorized <=> (Success(teamRsp) /\ Elems(f.args) \cap TeamSet # {})
        /\ Calls("teamUrlBase") = 1

\* C7 amended: for team-kind policies with non-empty check values V, for a
\* request that passed the identity validation and the realm check the team
\* service is called exactly once, and the decision is Authorized if and only
\* if the lookup succeeded and V has an element in common with the returned
\* team set; for any other request the team service is not called and the
\* decision is Rejected.
C7_TeamIffIntersectAfterRealm ==
    (f.typ = checkTeam /\ f.args # <<>>) =>
        /\ PassedRealm =>
              /\ Calls("teamUrlBase") = 1
              /\ net[2] = getTeamsRequest(IdentityDoc.Uid, token)
              /\ Returned =>
                    (Authorized <=>
                        (Success(teamRsp) /\ Elems(f.args) \cap TeamSet # {}))
        /\ ~PassedRealm =>
              /\ Calls("teamUrlBase") = 0
              /\ teamRsp = NoRsp
              /\ Returned => Rejected

C7_Witness ==
    /\ pc = "done"
    /\ f.typ = checkTeam
    /\ f.args = <<"A", "a">>
    /\ PassedRealm
    /\ Success(teamRsp)
    /\ TeamSet = {"a"}
    /\ Calls("teamUrlBase") = 1
    /\ Authorized

\* C8: for team-kind policies with empty check values the team service is
\* never called, and the team check passes unconditionally: every request
\* that passed the identity validation and the realm check is Authorized.
C8_NoTeamsNoCall ==
    (f.typ = checkTeam /\ f.args = <<>>) =>
        /\ Calls("teamUrlBase") = 0
        /\ teamRsp = NoRsp
        /\ pc # "getTeams"
        /\ PassedRealm => Returned /\ Authorized

C8_Witness ==
    /\ pc = "done"
    /\ f.typ = checkTeam
    /\ f.realm = "/immortals"
    /\ f.args = <<>>
    /\ PassedRealm
    /\ Authorized
    /\ Len(net) = 1
    /\ backend = <<r>>

\* C9: when the identity service answers with a status other than 200 (every
\* non-success status is one) the request is Rejected with invalid-token;
\* when the call fails at transport level, or the body of a 200 answer does
\* not decode, it is Rejected with auth-service-access; in both cases the
\* recorded user id is empty, the served response is 401 and the team
\* service is not called.
C9_IdentityFailureReasons ==
    /\ Refused(authRsp) => Reason = invalidToken
    /\ Unavailable(authRsp) => Reason = authServiceAccess
    /\ (Refused(authRsp) \/ Unavailable(authRsp)) =>
          /\ Returned
          /\ Rejected
          /\ authUserKey \in DOMAIN ctx.StateBag
          /\ User = ""
          /\ ctx.served = StatusUnauthorized
          /\ Calls("teamUrlBase") = 0
          /\ pc = "done" => rsp = StatusUnauthorized /\ backend = <<>>

C9_Witness ==
    /\ pc = "done"
    /\ authRsp = HttpRsp(StatusOK, Undecodable)
    /\ Reason = authServiceAccess
    /\ User = ""
    /\ rsp = StatusUnauthorized

\* C10: for team-kind policies with non-empty check values, every failure of
\* the team lookup (transport error, status other than 200, undecodable
\* body) yields Rejected with team-service-access, never invalid-team and
\* never Authorized; invalid-team is recorded only when the lookup succeeded
\* and the returned team set has no element in common with the check values.
C10_TeamFailureReasons ==
    (f.typ = checkTeam /\ f.args # <<>>) =>
        /\ (Refused(teamRsp) \/ Unavailable(teamRsp)) =>
              /\ Returned
              /\ Rejected
              /\ Reason = teamServiceAccess
              /\ ctx.served = StatusUnauthorized
        /\ Reason = invalidTeam =>
              /\ Success(teamRsp)
              /\ Elems(f.args) \cap TeamSet = {}
        /\ Reason = teamServiceAccess =>
              Refused(teamRsp) \/ Unavailable(teamRsp)

C10_Witness ==
    /\ pc = "done"
    /\ f.typ = checkTeam
    /\ f.args # <<>>
    /\ teamRsp = HttpRsp(StatusUnauthorized, Undecodable)
    /\ Reason = teamServiceAccess
    /\ rsp = StatusUnauthorized

\* C11 as stated: the decision is never changed once written, for every chain
\* of filters: once Rejected it is never overwritten with Authorized, and
\* once Authorized it is never overwritten with Rejected.
C11_DecisionWrittenOnce ==
    [][ /\ authRejectReasonKey \in DOMAIN ctx.StateBag =>
              authRejectReasonKey \in DOMAIN ctx'.StateBag
        /\ (/\ authUserKey \in DOMAIN ctx.StateBag
            /\ authRejectReasonKey \notin DOMAIN ctx.StateBag) =>
              authRejectReasonKey \notin DOMAIN ctx'.StateBag
      ]_vars

\* C11 amended: every auth / authTeam filter writes the decision exactly
\* once, when its Request returns; with a single such filter in the route
\* the decision never changes afterwards.  In a chain of several filters a
\* decision once Rejected is never overwritten with Authorized: the reason
\* stays recorded and the served response stays 401; but a request that one
\* filter authorized can be Rejected by a later filter of the chain.
C11_RejectedIsFinal ==
    [][ /\ ctx' # ctx =>
              /\ pc \in {"Request", "validate", "getTeams"}
              /\ pc' = "returned"
        /\ (pc # "returned" /\ pc' = "returned") =>
              /\ authUserKey \in DOMAIN ctx'.StateBag
              /\ authRejectReasonKey \in DOMAIN ctx'.StateBag
                    <=> ctx'.served = StatusUnauthorized
        /\ (Len(route) = 1 /\ ctx.StateBag # <<>>) => ctx' = ctx
        /\ authRejectReasonKey \in DOMAIN ctx.StateBag =>
              /\ authRejectReasonKey \in DOMAIN ctx'.StateBag
              /\ ctx'.served = StatusUnauthorized
              /\ backend' = <<>>
      ]_vars

C11_Witness ==
    /\ pc = "done"
    /\ Len(route) = 2
    /\ ~hostStops
    /\ route[1].flt.realm = "/immortals"
    /\ route[2].flt.realm = ""
    /\ Success(authRsp)
    /\ Reason = invalidRealm
    /\ rsp = StatusUnauthorized

\* C12: for every authorized request, the Authorization header has been
\* removed from the request that reaches the backend.
C12_CredentialRemoved ==
    (pc = "done" /\ Authorized) =>
        /\ Len(backend) = 1
        /\ authHeaderName \notin DOMAIN backend[1].Header

----------------------------------------------------------------------------
(* The capture of the request body *)

\* the auditLog filters of the route that wrap the body, in the order of
\* their wrappers, innermost first
Wrapping(rt) == SelectSeq(rt, LAMBDA x : x.name = AuditLogName /\ wraps(x))

\* the auditLog filters of the route
Auditing(rt) == SelectSeq(rt, LAMBDA x : x.name = AuditLogName)

\* the cap of wrapper k of the request
Cap(k) == Wrapping(route)[k].maxBodyLog

\* the first n bytes of the original body, all of them for n < 0 or for n
\* beyond its length
Prefix(n) ==
    IF n < 0 \/ n >= Len(rbody.data) THEN rbody.data ELSE SubSeq(rbody.data, 1, n)

\* the chunks a write can carry: the slices of the body
Chunks ==
    {SubSeq(rbody.data, i, j) : i \in 1..(Len(rbody.data) + 1),
                                j \in 0..Len(rbody.data)}

\* C13: in every cap state a request reaches, a write of L bytes into the
\* wrapper reports L bytes written and no error; with a remaining capacity
\* r < L the first r bytes are retained, the rest is dropped and the
\* remaining capacity becomes 0; otherwise all L bytes are retained.
C13_WriteReportsFullLength ==
    \A k \in 1..Len(tees) : \A b \in Chunks :
        LET tb == tees[k]
            w == Write(tb, b)
        IN  /\ w.n = Len(b)
            /\ w.err = nil
            /\ (tb.maxTee >= 0 /\ tb.maxTee < Len(b)) =>
                  /\ w.tb.buffer = tb.buffer \o SubSeq(b, 1, tb.maxTee)
                  /\ w.tb.maxTee = 0
            /\ (tb.maxTee >= Len(b)) =>
                  /\ w.tb.buffer = tb.buffer \o b
                  /\ w.tb.maxTee = tb.maxTee - Len(b)
            /\ (tb.maxTee < 0) =>
                  /\ w.tb.buffer = tb.buffer \o b
                  /\ w.tb.maxTee = tb.maxTee

C13_Witness ==
    /\ pc = "backend"
    /\ Len(tees) = 1
    /\ Cap(1) = 1
    /\ read # NoRead
    /\ Len(read.raw.data) = 2
    /\ read.got.data = read.raw.data
    /\ tees[1].buffer = <<1>>
    /\ tees[1].maxTee = 0

\* C14: while the backend reads the body in chunks, every chunk being
\* written into every wrapper, a wrapper with cap > 0 retains the first
\* min(bytes written, cap) bytes of what was written, and an unlimited
\* wrapper all of it.
C14_RetainedIsPrefix ==
    pc = "backend" =>
        \A k \in 1..Len(tees) :
            tees[k].buffer =
                IF Cap(k) < 0 \/ Cap(k) >= rbody.pos
                THEN Prefix(rbody.pos) ELSE Prefix(Cap(k))

C14_Witness ==
    /\ pc = "backend"
    /\ Len(tees) = 1
    /\ Cap(1) = 2
    /\ rbody.pos = 3
    /\ read # NoRead
    /\ Len(read.raw.data) = 1
    /\ tees[1].buffer = <<1, 2>>

\* C15: every read of the backend through the wrappers returns the bytes
\* and the error (none, or the end of the stream) that the read of the
\* original body returned, for every cap, also for reads after the cap
\* has been reached.
C15_ReadsPassThrough ==
    read # NoRead =>
        /\ read.got.data = read.raw.data
        /\ read.got.err = read.raw.err

C15_Witness ==
    /\ pc = "backend"
    /\ Len(tees) = 2
    /\ Cap(1) = 1
    /\ Cap(2) = 2
    /\ rbody.pos = 3
    /\ read # NoRead
    /\ read.raw = [data |-> <<3>>, err |-> EOF]
    /\ read.got = read.raw

----------------------------------------------------------------------------
(* The audit record *)

\* the captured body a record carries, <<>> when it carries none
Captured(rec) ==
    IF "requestBody" \in DOMAIN rec THEN rec["requestBody"].s ELSE <<>>

\* the route has one auditLog filter
SingleAudit == Len(Auditing(route)) = 1

\* the cap of the first auditLog filter of the route
TheCap == Auditing(route)[1].maxBodyLog

\* C16: on a route with one auditLog filter with a cap other than 0,
\* whatever part of the body the backend consumed (nothing, for a request
\* that was rejected), the captured body of the audit record is the first
\* min(body length, cap) bytes of the original body, and the whole body for
\* a cap below 0.
C16_RecordHoldsPrefix ==
    (SingleAudit /\ Len(log) = 1 /\ TheCap # 0) =>
        Captured(log[1]) = Prefix(TheCap)

C16_Witness ==
    /\ pc = "done"
    /\ SingleAudit
    /\ TheCap = 2
    /\ Len(rbody.data) = 3
    /\ read # NoRead
    /\ read.raw = [data |-> <<1>>, err |-> nil]
    /\ Len(log) = 1
    /\ Captured(log[1]) = <<1, 2>>

\* C17: for a cap C > 0, in every reachable state of a request, also on
\* routes with more than one auditLog filter, the buffer of the wrapper
\* holds at most C bytes and its remaining capacity is not negative.
C17_BufferWithinCap ==
    \A k \in 1..Len(tees) :
        Cap(k) > 0 =>
            /\ Len(tees[k].buffer) <= Cap(k)
            /\ tees[k].maxTee >= 0

\* C18: on a route with one auditLog filter, the body is wrapped by the
\* Request of the filter exactly when its cap is not 0, and the record
\* carries a requestBody exactly when the body was wrapped and the wrapper
\* retained at least one byte, which is when the cap is not 0 and the body
\* is not empty; with the cap 0 the body is never wrapped and no body is
\* logged.
C18_BodyLoggedIffCaptured ==
    SingleAudit =>
        /\ TheCap = 0 => tees = <<>>
        /\ (TheCap # 0 /\ ~(idx = 1 /\ pc = "Request")) => Len(tees) = 1
        /\ Len(log) = 1 =>
              /\ "requestBody" \in DOMAIN log[1]
                    <=> IF Len(tees) = 1
                        THEN Len(tees[1].buffer) >= 1 ELSE FALSE
              /\ "requestBody" \in DOMAIN log[1]
                    <=> (TheCap # 0 /\ Len(rbody.data) >= 1)

C18_Witness ==
    /\ pc = "done"
    /\ SingleAudit
    /\ TheCap = -1
    /\ Len(rbody.data) = 1
    /\ read = NoRead
    /\ Len(log) = 1
    /\ Captured(log[1]) = <<1>>

\* C19: every audit record has the authStatus exactly when the state bag
\* holds a non-empty user id or a non-empty reject reason; in it, rejected
\* is true exactly when there is a reason, the reason is present exactly
\* when there is one, and the user exactly when the user id is not empty.
C19_AuthStatusIffDecision ==
    \A i \in 1..Len(log) :
        LET rec == log[i]
        IN  /\ "authStatus" \in DOMAIN rec <=> (User # "" \/ Reason # "")
            /\ "authStatus" \in DOMAIN rec =>
                  LET st == rec["authStatus"].o
                  IN  /\ st["rejected"] = (Reason # "")
                      /\ "reason" \in DOMAIN st <=> Reason # ""
                      /\ Reason # "" => st["reason"] = Reason
                      /\ "user" \in DOMAIN st <=> User # ""
                      /\ User # "" => st["user"] = User

C19_Witness ==
    /\ pc = "done"
    /\ Len(log) = 1
    /\ User = "jdoe"
    /\ Reason = invalidScope
    /\ log[1]["authStatus"].o =
          [rejected |-> TRUE, user |-> "jdoe", reason |-> invalidScope]

\* the seven reject reasons
Reasons ==
    {missingBearerToken, authServiceAccess, invalidToken, invalidRealm,
     invalidScope, teamServiceAccess, invalidTeam}

\* C20: on a route of an auditLog filter followed by an auth / authTeam
\* filter, the record of a Rejected request has the status 401 and an
\* authStatus with rejected true and the reason the filter recorded, one of
\* the seven; the record of an Authorized request has no reason and no
\* rejected true: its authStatus, there when the user id is not empty, has
\* rejected false and no reason.
C20_RecordAgreesWithDecision ==
    (Len(route) = 2 /\ route[2].name # AuditLogName /\ Len(log) = 1) =>
        LET rec == log[1]
        IN  /\ Rejected =>
                  /\ rec["status"].i = StatusUnauthorized
                  /\ "authStatus" \in DOMAIN rec
                  /\ rec["authStatus"].o["rejected"] = TRUE
                  /\ rec["authStatus"].o["reason"] = Reason
                  /\ Reason \in Reasons
            /\ Authorized =>
                  /\ "authStatus" \in DOMAIN rec <=> User # ""
                  /\ "authStatus" \in DOMAIN rec =>
                        /\ rec["authStatus"].o["rejected"] = FALSE
                        /\ "reason" \notin DOMAIN rec["authStatus"].o

C20_Witness ==
    /\ pc = "done"
    /\ Len(route) = 2
    /\ route[2].name = AuthTeamName
    /\ Len(log) = 1
    /\ Reason = invalidTeam
    /\ log[1]["status"].i = StatusUnauthorized
    /\ log[1]["authStatus"].o["reason"] = invalidTeam

\* C21: the method and the path of every audit record are those of the
\* original request, and its status is the status of the response,
\* whatever a later filter of the route made of the request it works on.
C21_RecordOfOriginalRequest ==
    \A i \in 1..Len(log) :
        /\ log[i]["method"].s = original.Method
        /\ log[i]["path"].s = original.Path
        /\ log[i]["status"].i = rsp

C21_Witness ==
    /\ pc = "done"
    /\ Len(route) = 3
    /\ Len(backend) = 1
    /\ original.Method = "POST"
    /\ original.Path = "/es/x"
    /\ r.Path = "/"
    /\ backend[1].Path = "/"
    /\ Len(log) = 1
    /\ log[1]["path"].s = "/es/x"
    /\ log[1]["status"].i = StatusOK

C23_NoRetries ==
    /\ Calls("authUrlBase") <= 1
    /\ Calls("teamUrlBase") <= 1
    /\ (authRsp # NoRsp /\ ~Success(authRsp)) =>
          /\ Returned
          /\ Rejected
          /\ Len(net) = 1
          /\ teamRsp = NoRsp
    /\ (teamRsp # NoRsp /\ ~Success(teamRsp)) =>
          /\ Returned
          /\ Rejected
          /\ Len(net) = 2

C23_Witness ==
    /\ pc = "done"
    /\ teamRsp = TransportFailure
    /\ Calls("authUrlBase") = 1
    /\ Calls("teamUrlBase") = 1
    /\ Reason = teamServiceAccess
    /\ rsp = StatusUnauthorized

\* the call of a service is under way: the request went out and the answer
\* is not there yet
ValidateUnderWay == Calls("authUrlBase") = 1 /\ authRsp = NoRsp
GetTeamsUnderWay == Calls("teamUrlBase") = 1 /\ teamRsp = NoRsp

\* C24: the team service is called only after the token validation service
\* answered with success and the realm check passed, the two calls are
\* never under way at the same time, and the team call carries the user id
\* of the identity document of the request.
C24_StepsInOrder ==
    /\ ~(ValidateUnderWay /\ GetTeamsUnderWay)
    /\ Calls("teamUrlBase") >= 1 =>
          /\ Len(net) = 2
          /\ net[1].url.base = "authUrlBase"
          /\ net[2].url = [base |-> "teamUrlBase", tail |-> IdentityDoc.Uid]
          /\ Success(authRsp)
          /\ RealmOk
          /\ a = IdentityDoc

C24_Witness ==
    /\ pc = "getTeams"
    /\ GetTeamsUnderWay
    /\ f.realm = "/immortals"
    /\ IdentityDoc.Uid = "jdoe"
    /\ net[2].url.tail = "jdoe"

\* the requests that got their response
Finished == {i \in 1..NumRequests : reqs[i].pc \in {"Response", "done"}}

\* C25: requests that the same filters handle at the same time share the
\* policy of the filter, which no step of a request changes; in every
\* interleaving, every request ends with the filter context (the state
\* bag and the served response) that filter.Request leaves for it when it
\* is handled alone, and the audit log gets the record of that context.
C25_RequestsDoNotInterfere ==
    /\ [](\A i \in Finished :
            /\ reqs[i].ctx =
                  RequestAlone(f, reqs[i].r, reqs[i].authRsp, reqs[i].teamRsp)
            /\ reqs[i].pc = "done" =>
                  \E j \in 1..Len(log) :
                      log[j] = Encode(auditDoc(reqs[i].r, reqs[i].rsp,
                                               reqs[i].ctx.StateBag, <<>>)))
    /\ [](Len(log) = Cardinality({i \in 1..NumRequests : reqs[i].pc = "done"}))
    /\ [][f' = f /\ route' = route]_vars

C25_Witness ==
    /\ reqs[1].pc = "done"
    /\ reqs[2].pc = "done"
    /\ f.typ = checkTeam
    /\ reqs[1].a # NoDoc
    /\ reqs[2].a # NoDoc
    /\ reqs[1].a.Uid = ""
    /\ reqs[2].a.Uid = "jdoe"
    /\ reqs[1].teamRsp # NoRsp
    /\ reqs[2].teamRsp # NoRsp
    /\ authRejectReasonKey \notin DOMAIN reqs[1].ctx.StateBag
    /\ reqs[2].ctx.StateBag[authUserKey] = "jdoe"
    /\ reqs[2].ctx.StateBag[authRejectReasonKey] = invalidTeam

\* the incoming Authorization header without its first seven characters
Remainder == [i \in 1..(Len(IncomingAuth) - 7) |-> IncomingAuth[i + 7]]

\* C26: getToken succeeds exactly for the header values that start with
\* "Bearer ", in this case of the letters, and returns the rest of the
\* value as the token, the empty string for "Bearer "; for every other
\* value and for a missing header it fails, and the request is rejected
\* for a missing bearer token.
C26_GetTokenBearerPrefix ==
    LET t == getToken(r)
    IN  /\ t.err = nil <=> BearerPrefixed
        /\ BearerPrefixed => t.token = Remainder
        /\ ~BearerPrefixed => t.err = errInvalidAuthorizationHeader
        /\ (pc # "Request" /\ BearerPrefixed) =>
              /\ token = Remainder
              /\ Len(net) >= 1
        /\ (pc # "Request" /\ ~BearerPrefixed) =>
              /\ Reason = missingBearerToken
              /\ net = <<>>

C26_Witness ==
    /\ pc = "validate"
    /\ IncomingAuth = Bearer
    /\ token = <<>>
    /\ Len(net) = 1

\* the arguments of the filter definition that are strings, in order
AllStrings(args) == \A i \in 1..Len(args) : args[i].t = "string"

\* C27: spec.CreateFilter takes the first argument as the realm, "" when
\* there is no argument, and the arguments after it, in order, as the
\* scope or team values, none when there is no such argument; when any
\* argument is not a string it returns ErrInvalidFilterParameters and no
\* filter.
C27_CreateFilterFromArguments ==
    (pc \in {"ready", "invalid"} /\ conf.mode = "file") =>
        LET args == defs[1].Args
        IN  /\ ~AllStrings(args) =>
                  /\ pc = "invalid"
                  /\ route = <<>>
                  /\ f = NoFilter
                  /\ stderr = <<ErrInvalidFilterParameters>>
            /\ AllStrings(args) =>
                  /\ pc = "ready"
                  /\ stderr = <<>>
                  /\ route[1].name = defs[1].Name
                  /\ f = route[1].flt
                  /\ f.typ = IF defs[1].Name = AuthName
                             THEN checkScope ELSE checkTeam
                  /\ f.realm = IF Len(args) = 0 THEN "" ELSE args[1].v
                  /\ Len(f.args) = IF Len(args) = 0 THEN 0 ELSE Len(args) - 1
                  /\ \A i \in 1..Len(f.args) : f.args[i] = args[i + 1].v

C27_Witness ==
    /\ pc = "invalid"
    /\ conf.mode = "file"
    /\ defs[1].Args = <<StringArg("/immortals"), StringArg("a"), NumberArg(1)>>
    /\ route = <<>>

\* the pieces joined with commas
RECURSIVE Join(_)
Join(ps) ==
    IF Len(ps) = 0 THEN <<>>
    ELSE IF Len(ps) = 1 THEN ps[1]
    ELSE ps[1] \o <<",">> \o Join(Tail(ps))

\* the flags are those of the single-route mode, and the command accepts them
SingleRoute ==
    /\ conf.mode = "flags"
    /\ conf.targetAddress # ""
    /\ conf.routesFile = ""
    /\ ~(conf.scopes # <<>> /\ conf.teams # <<>>)

\* C28: in the single-route mode of the command, the route has the filter
\* that drops the Authorization header after the auth filter unless
\* -preserve-header is set; the auth filter is an authTeam filter for -teams
\* and an auth filter otherwise, its realm is the -realm flag and its values
\* are the pieces between the commas of the -scopes or -teams flag, in
\* order: with an empty -realm no value becomes the realm.
C28_SingleRouteFromFlags ==
    /\ (conf.mode = "flags" /\ pc # "main") =>
          (pc \in {"create", "ready"} <=> SingleRoute)
    /\ (SingleRoute /\ pc \in {"create", "ready"}) =>
          /\ Len(defs) = IF conf.preserveHeader THEN 1 ELSE 2
          /\ ~conf.preserveHeader =>
                defs[2] = [Name |-> DropRequestHeaderName,
                           Args |-> <<StringArg(authHeaderName)>>]
          /\ defs[1].Name = IF conf.teams # <<>> THEN AuthTeamName ELSE AuthName
    /\ (SingleRoute /\ pc = "ready") =>
          LET values == IF conf.teams # <<>> THEN conf.teams ELSE conf.scopes
          IN  /\ Len(route) = Len(defs)
              /\ route[1].name = defs[1].Name
              /\ f = route[1].flt
              /\ f.typ = IF conf.teams # <<>> THEN checkTeam ELSE checkScope
              /\ f.realm = conf.realm
              /\ values = <<>> <=> f.args = <<>>
              /\ Join(f.args) = values
              /\ \A i \in 1..Len(f.args) : Comma(f.args[i]) = 0
              /\ ~conf.preserveHeader =>
                    route[2].name = DropRequestHeaderName

C28_Witness ==
    /\ pc = "ready"
    /\ SingleRoute
    /\ ~conf.preserveHeader
    /\ conf.realm = ""
    /\ conf.teams = <<"a", ",", "a">>
    /\ f = [typ |-> checkTeam, realm |-> "", args |-> <<<<"a">>, <<"a">>>>]
    /\ Len(route) = 2

\* the request was let through: the backend got it
LetThrough == pc = "done" /\ backend = <<r>>

\* C29: a hackauth filter with team ids lets a request through only when
\* the team service answered with the teams of the user and one of them is
\* among the team ids of the filter, whatever the realm argument is, the
\* empty realm included.
C29_TeamsAlwaysChecked ==
    (LetThrough /\ Len(f.teams) > 0) =>
        /\ teamRsp.kind = "http"
        /\ teamRsp.body.decodable
        /\ Elems(f.teams) \cap TeamSet # {}

\* C30: when the token validation service answers with a status other than
\* 200, whatever the body of the answer, the hackauth filter serves 401
\* and the backend does not get the request.
C30_RefusedTokenRejected ==
    (pc = "done" /\ Refused(authRsp)) =>
        /\ rsp = StatusUnauthorized
        /\ ctx.served = StatusUnauthorized
        /\ backend = <<>>

\* the value of the Authorization header of an outgoing lookup, <<>> when
\* the lookup has none
OutgoingAuth(q) ==
    IF authHeaderName \in DOMAIN q.Header THEN q.Header[authHeaderName] ELSE <<>>

C32_UserKnownAtDecision ==
    Returned =>
        /\ authUserKey \in DOMAIN ctx.StateBag
        /\ IF Reason \in {missingBearerToken, invalidToken, authServiceAccess}
           THEN ctx.StateBag[authUserKey] = ""
           ELSE /\ \/ Authorized
                   \/ Reason \in {invalidRealm, invalidScope,
                                  teamServiceAccess, invalidTeam}
                /\ Success(authRsp)
                /\ ctx.StateBag[authUserKey] = IdentityDoc.Uid

C32_Witness ==
    /\ pc = "done"
    /\ Reason = teamServiceAccess
    /\ Success(authRsp)
    /\ IdentityDoc.Uid = "jdoe"
    /\ ctx.StateBag[authUserKey] = "jdoe"

----------------------------------------------------------------------------
(* intersect on its own: a call with any two sequences of strings *)

\* the sequences of strings intersect is called with
Strings == SeqUpTo(Values, MaxSeq)

InitIntersect ==
    /\ operands \in [left : Strings, right : Strings]
    /\ overlap = FALSE
    /\ hung = NoHang
    /\ pc = "intersect"
    /\ route = <<>>
    /\ r = [Header |-> NoHeader]
    /\ f = NoFilter
    /\ idx = 0
    /\ hostStops = TRUE
    /\ rbody = NoBody
    /\ tees = <<>>
    /\ read = NoRead
    /\ log = <<>>
    /\ token = <<>>
    /\ a = NoDoc
    /\ ctx = [StateBag |-> <<>>, served |-> 0]
    /\ net = <<>>
    /\ authRsp = NoRsp
    /\ teamRsp = NoRsp
    /\ backend = <<>>
    /\ rsp = 0
    /\ original = r
    /\ stderr = <<>>
    /\ conf = NoConf
    /\ defs = <<>>
    /\ reqs = <<>>

\* the call intersect(left, right) and its return
Intersect ==
    /\ pc = "intersect"
    /\ overlap' = intersect(operands.left, operands.right)
    /\ pc' = "intersected"
    /\ UNCHANGED <<f, r, token, a, ctx, net, authRsp, teamRsp, backend, rsp,
                   route, idx, hostStops, rbody, tees, read, log, original,
                   stderr, conf, defs, reqs, operands, hung>>

NextIntersect == Intersect

SpecIntersect == InitIntersect /\ [][NextIntersect]_vars

\* C33: intersect(left, right) is true exactly when some string is an
\* element of both sequences, compared by exact equality ("a" and "A" are
\* different strings); the result is the same with the two arguments
\* swapped and with any two sequences that have the same elements as left
\* and right (reordered, or with elements repeated); it is false when left
\* or right is empty.
C33_IntersectIsOverlap ==
    pc = "intersected" =>
        /\ overlap <=> (\E s \in Elems(operands.left) : s \in Elems(operands.right))
        /\ overlap = intersect(operands.right, operands.left)
        /\ \A l2, r2 \in Strings :
              (/\ Elems(l2) = Elems(operands.left)
               /\ Elems(r2) = Elems(operands.right)) => intersect(l2, r2) = overlap
        /\ (operands.left = <<>> \/ operands.right = <<>>) => ~overlap

C33_Witness ==
    /\ pc = "intersected"
    /\ operands.left = <<"a", "A", "a">>
    /\ operands.right = <<"A">>
    /\ overlap

----------------------------------------------------------------------------
(* The frame of filter.Request *)

\* filter.Request of an auth or authTeam filter is under way
InRequest ==
    /\ pc \in {"Request", "validate", "getTeams"}
    /\ idx \in DOMAIN route
    /\ route[idx].name \in {AuthName, AuthTeamName}

\* filter.Request of an auth or authTeam filter has just returned
JustReturned ==
    /\ pc = "returned"
    /\ idx \in DOMAIN route
    /\ route[idx].name \in {AuthName, AuthTeamName}

----------------------------------------------------------------------------
(* Concurrent requests when a remote call may never return *)

\* the remote calls of filter.Request, by the place where it waits for them
RemoteCalls == {"validate", "getTeams"}

\* at most one remote call never returns: the call of that kind that the
\* request makes
Hangs ==
    {NoHang} \cup [req : 1..NumRequests, call : RemoteCalls]

Blocked_EveryRequest(h, i, call) == h.call = call

\* http.DefaultClient.Do of request i, in the call of that kind, does not
\* return
Blocked(h, i, call) == h.req = i /\ h.call = call

\* the answer of the token validation service reaches request i
LiveValidated(i) ==
    /\ ~Blocked(hung, i, "validate")
    /\ ConcValidated(i)

\* the answer of the team service reaches request i
LiveTeams(i) ==
    /\ ~Blocked(hung, i, "getTeams")
    /\ ConcTeams(i)

InitLive ==
    /\ f \in AuditedFilters \cup {CreateFilter(checkTeam, <<>>)}
    /\ route = <<AuthFilter(f)>>
    /\ reqs \in [1..NumRequests ->
                   {NewRequest(Inbound(req, "GET", "/")) :
                       req \in {[Header |-> NoHeader],
                                [Header |-> Header1(authHeaderName,
                                                    Bearer \o <<"t">>)]}}]
    /\ hung \in Hangs
    /\ r = [Header |-> NoHeader]
    /\ pc = "concurrent"
    /\ idx = 0
    /\ hostStops = TRUE
    /\ rbody = NoBody
    /\ tees = <<>>
    /\ read = NoRead
    /\ log = <<>>
    /\ token = <<>>
    /\ a = NoDoc
    /\ ctx = [StateBag |-> <<>>, served |-> 0]
    /\ net = <<>>
    /\ authRsp = NoRsp
    /\ teamRsp = NoRsp
    /\ backend = <<>>
    /\ rsp = 0
    /\ original = r
    /\ stderr = <<>>
    /\ conf = NoConf
    /\ defs = <<>>
    /\ operands = NoCall
    /\ overlap = FALSE

NextLive ==
    \E i \in 1..NumRequests :
        \/ ConcGetToken(i)
        \/ LiveValidated(i)
        \/ LiveTeams(i)

\* every request runs in a goroutine of its own, which goes on whenever it
\* can; the answer of a remote call that returns is delivered
LiveFairness ==
    \A i \in 1..NumRequests :
        /\ WF_vars(ConcGetToken(i))
        /\ WF_vars(LiveValidated(i))
        /\ WF_vars(LiveTeams(i))

SpecLive == InitLive /\ [][NextLive]_vars /\ LiveFairness

\* filter.Request of request i returned with a decision in the state bag
Decided(i) ==
    /\ reqs[i].pc = "Response"
    /\ authUserKey \in DOMAIN reqs[i].ctx.StateBag

\* request i waits for the remote call that never returns
Stalled(i) == hung.req = i /\ reqs[i].pc = hung.call

\* C35: every request whose remote calls all return eventually has its
\* decision, Authorized or Rejected, whatever happens to the requests handled
\* at the same time; a request gets no decision only by waiting for ever for
\* its own remote call that never returns.
C35_EveryRequestDecided ==
    \A i \in 1..NumRequests :
        /\ (hung.req # i) => <>Decided(i)
        /\ <>[](Decided(i) \/ Stalled(i))

C35_Witness ==
    /\ hung = [req |-> 1, call |-> "getTeams"]
    /\ Stalled(1)
    /\ Decided(2)
    /\ Len(reqs[2].net) = 2
    /\ authRejectReasonKey \notin DOMAIN reqs[2].ctx.StateBag

\* C36: a scope-kind filter sends no request to the team service and never
\* records team-service-access or invalid-team; a team-kind filter never
\* records invalid-scope, and its decision on a request that passed the
\* identity validation and the realm check depends on its team ids and on
\* the answer of the team service only, whatever the scopes of the identity
\* document are.
C36_KindsKeptApart ==
    /\ f.typ = checkScope =>
          /\ \A i \in 1..Len(net) : net[i].url.base # "teamUrlBase"
          /\ pc # "getTeams"
          /\ teamRsp = NoRsp
          /\ Reason \notin {teamServiceAccess, invalidTeam}
    /\ f.typ = checkTeam =>
          /\ Reason # invalidScope
          /\ (Returned /\ PassedRealm) =>
                (Authorized <=>
                    \/ f.args = <<>>
                    \/ /\ Success(teamRsp)
                       /\ Elems(f.args) \cap TeamSet # {})

C36_Witness ==
    /\ pc = "done"
    /\ f.typ = checkTeam
    /\ f.args = <<"a">>
    /\ Success(authRsp)
    /\ IdentityDoc.Scopes = <<"A">>
    /\ Success(teamRsp)
    /\ TeamSet = {"a"}
    /\ Authorized

----------------------------------------------------------------------------
(* hackauth: the flags of the command *)

\* an argument of a filter definition that is a list of strings
ListArg(v) == [t |-> "[]string", v |-> v]

\* hackauth main: the arguments of the hackauth filter of the single route;
\* the pieces of the teams flag are appended as one argument
hackFilterArgs(realm, teams) ==
    IF realm # ""
    THEN <<StringArg(realm)>> \o
         (IF teams # <<>> THEN <<ListArg(Split(teams))>> ELSE <<>>)
    ELSE <<>>

\* hackauth main: the command ends with the usage message, or runs the proxy
\* with the routes of the routes file, or with the single route of its filter
hackMain(fl) ==
    IF fl.targetAddress = "" /\ fl.routesFile = "" THEN Usage
    ELSE IF fl.targetAddress # "" /\ fl.routesFile # "" THEN Usage
    ELSE IF fl.routesFile # "" /\ (fl.realm # "" \/ fl.teams # <<>>) THEN Usage
    ELSE IF fl.realm = "" /\ fl.teams # <<>> THEN Usage
    ELSE IF fl.targetAddress = ""
    THEN [exit |-> FALSE, file |-> TRUE, filters |-> <<>>]
    ELSE [exit |-> FALSE, file |-> FALSE,
          filters |-> <<[Name |-> HackAuthName,
                         Args |-> hackFilterArgs(fl.realm, fl.teams)]>>]

\* hackauth: spec.CreateFilter, for arguments of any type
hackSpecCreateFilter(args) ==
    IF \E i \in 1..Len(args) : args[i].t # "string"
    THEN [err |-> ErrInvalidFilterParameters, filter |-> NoFilter]
    ELSE [err |-> nil,
          filter |-> hackCreateFilter([i \in 1..Len(args) |-> args[i].v])]

\* the flags of the hackauth command
HackFlags ==
    {[mode |-> "hackflags", targetAddress |-> ta, routesFile |-> rf,
      realm |-> rl, teams |-> ts] :
        ta \in {"", "https://www.example.org"}, rf \in {"", "routes.eskip"},
        rl \in PolicyRealms, ts \in FlagValues}

\* the hackauth command starts
InitHackConfig ==
    /\ conf \in HackFlags
    /\ defs = <<>>
    /\ route = <<>>
    /\ pc = "main"
    /\ r = [Header |-> NoHeader]
    /\ f = NoFilter
    /\ idx = 0
    /\ hostStops = TRUE
    /\ rbody = NoBody
    /\ tees = <<>>
    /\ read = NoRead
    /\ log = <<>>
    /\ token = <<>>
    /\ a = NoDoc
    /\ ctx = [StateBag |-> <<>>, served |-> 0]
    /\ net = <<>>
    /\ authRsp = NoRsp
    /\ teamRsp = NoRsp
    /\ backend = <<>>
    /\ rsp = 0
    /\ original = r
    /\ stderr = <<>>
    /\ reqs = <<>>
    /\ operands = NoCall
    /\ overlap = FALSE
    /\ hung = NoHang

\* hackauth main
HackMain ==
    /\ pc = "main"
    /\ LET m == hackMain(conf)
       IN  /\ defs' = m.filters
           /\ pc' = IF m.exit THEN "exit" ELSE IF m.file THEN "file" ELSE "create"
    /\ UNCHANGED <<f, r, token, a, ctx, net, authRsp, teamRsp, backend, rsp, idx,
                   route, hostStops, rbody, tees, read, log, original, stderr,
                   conf, reqs, callVars>>

\* the proxy creates the hackauth filter of the single route from its
\* definition; a route with a filter that cannot be created is dropped and
\* the error printed
HackCreateFilters ==
    /\ pc = "create"
    /\ LET c == hackSpecCreateFilter(defs[1].Args)
       IN  IF c.err # nil
           THEN /\ pc' = "invalid"
                /\ stderr' = Append(stderr, c.err)
                /\ UNCHANGED <<route, f>>
           ELSE /\ pc' = "ready"
                /\ route' = <<[name |-> HackAuthName, flt |-> c.filter]>>
                /\ f' = c.filter
                /\ UNCHANGED stderr
    /\ UNCHANGED <<r, token, a, ctx, net, authRsp, teamRsp, backend, rsp, idx,
                   hostStops, rbody, tees, read, log, original, conf, defs, reqs,
                   callVars>>

NextHackConfig ==
    \/ HackMain
    \/ HackCreateFilters

SpecHackConfig == InitHackConfig /\ [][NextHackConfig]_vars

\* C37: in the single-route mode of the hackauth command with -realm R and
\* -teams t1,...,tn, the hackauth filter of the route is created without
\* error, its realm is R and its teams are t1, ..., tn, the pieces between
\* the commas of the flag, in order.
C37_HackauthTeamsFromFlags ==
    (/\ conf.targetAddress # "" /\ conf.routesFile = ""
     /\ conf.realm # "" /\ conf.teams # <<>>
     /\ pc \notin {"main", "create"}) =>
        /\ pc = "ready"
        /\ stderr = <<>>
        /\ route = <<[name |-> HackAuthName, flt |-> f]>>
        /\ f.realm = conf.realm
        /\ Join(f.teams) = conf.teams
        /\ \A i \in 1..Len(f.teams) : Comma(f.teams[i]) = 0

====
